---- MODULE Spec2Model ----
(***************************************************************************)
(* A model of the tf-idf-rs domain layer: Document (domain/document.rs)    *)
(* and Corpus (domain/corpus.rs) with its document-frequency index, and    *)
(* of the scoring engine TfIdf (domain/tf_idf.rs).                         *)
(*                                                                         *)
(* Term's PartialEq and Hash use the text alone (domain/term.rs:94-109),   *)
(* so the text is the key of every HashMap<Term, _>.  A HashMap is a       *)
(* function whose DOMAIN is its key set; the is_stopword flag of the Term  *)
(* stored as a key of a document's table is kept beside the table, in      *)
(* stopword_keys.  Document content, title and metadata are read by no     *)
(* Corpus or TfIdf operation and are left out of the Document record.      *)
(*                                                                         *)
(* The application layer (application/document_service.rs,                 *)
(* application/corpus_service.rs) works on two in-memory repositories;     *)
(* the documents it stores keep their content, which it tokenizes.         *)
(***************************************************************************)
EXTENDS Integers, FiniteSets, Sequences, TLC

VARIABLES
    documents,              \* Corpus.documents: HashMap<DocumentId, Document>
    document_frequencies,   \* Corpus.document_frequencies: HashMap<Term, usize>
    stopwords,              \* Corpus.stopwords: HashSet<String>
    indexed,                \* Corpus.indexed: bool
    name,                   \* Corpus.name: String
    description,            \* Corpus.description: Option<String>
    metadata,               \* Corpus.metadata: HashMap<String, String>
    last,                   \* the last call made on the corpus and what it returned
    previous,               \* document_frequencies as it was when that call was made
    document_repository,    \* InMemoryDocumentRepository.documents: HashMap<String, Document>
    corpus_repository,      \* InMemoryCorpusRepository.corpora: HashMap<String, Corpus>
    in_flight               \* the CorpusService calls of the concurrent callers: what
                            \* each call holds in its local `corpus`, and what it returned

vars == <<documents, document_frequencies, stopwords, indexed, name,
          description, metadata, last, previous,
          document_repository, corpus_repository, in_flight>>

\* The two repositories the services share.
Repositories == <<document_repository, corpus_repository>>

(***************************************************************************)
(* Bounds of the model.                                                    *)
(***************************************************************************)
\* Largest per-term count a document's table holds.
MaxFreq == 2
\* Largest term_count a document holds.
MaxCount == 2

\* Largest term_count of the document specification.
MaxAdded == 3

DocumentIds == {"doc1", "doc2"}
TermTexts == {"this", "test"}
\* Largest document frequency the index holds: the number of document ids.
MaxDocFreq == Cardinality(DocumentIds)
Names == {"Test Corpus", "Renamed"}
Descriptions == {"A description"}
Words == {"the"}
MetadataKeys == {"lang"}
MetadataValues == {"en"}

(***************************************************************************)
(* HashMap primitives.                                                     *)
(***************************************************************************)
EmptyMap == [k \in {} |-> 0]

\* HashMap::insert(k, v)
Insert(map, k, v) == [x \in (DOMAIN map) \cup {k} |-> IF x = k THEN v ELSE map[x]]

\* HashMap::remove(k)
Delete(map, k) == [x \in (DOMAIN map) \ {k} |-> map[x]]

\* Option<T>: None is {}, Some(x) is {x}
None == {}
Some(x) == {x}

(***************************************************************************)
(* Document (domain/document.rs).                                          *)
(***************************************************************************)
\* Term.  The stem is read by Term::stem and Term::canonical, which no
\* Document, Corpus or TfIdf operation calls.
Stems == {"thi"}

\* The Term values without a stem.
Terms == [text : TermTexts, is_stopword : BOOLEAN, stem : {None}]

\* Term::new
TermNew(text) == [text |-> text, is_stopword |-> FALSE, stem |-> None]

\* Term::stopword
TermStopword(text) == [text |-> text, is_stopword |-> TRUE, stem |-> None]

\* Term::with_stem
TermWithStem(text, stem) == [text |-> text, is_stopword |-> FALSE, stem |-> Some(stem)]

\* Faulty variant of hash_key: equality and hash derived from every field of Term.
hash_key_of_every_field(term) ==
    IF term.is_stopword THEN term.text \o " (stopword)"
    ELSE IF term.stem # None THEN term.text \o " (stemmed)"
    ELSE term.text

\* What a HashMap<Term, _> tells its keys apart by: PartialEq::eq and
\* Hash::hash of Term read the text alone.
hash_key(term) == term.text

TermTables == UNION {[S -> 0..MaxFreq] : S \in SUBSET TermTexts}

\* Every Document value the public API can build within the bounds:
\* add_term raises term_count, and term_frequencies_mut gives free access to
\* the table (any key set, any count, zero included) without touching
\* term_count.
\* stopword_keys holds the keys of the table whose stored Term is flagged
\* is_stopword.
Documents ==
    {document \in [id : DocumentIds, term_frequencies : TermTables,
                   stopword_keys : SUBSET TermTexts, term_count : 0..MaxCount] :
        document.stopword_keys \subseteq DOMAIN document.term_frequencies}

\* Document::new
NewDocument(id) ==
    [id |-> id, term_frequencies |-> EmptyMap, stopword_keys |-> {}, term_count |-> 0]

\* Document::term_frequency
term_frequency(document, term) ==
    IF term \in DOMAIN document.term_frequencies
    THEN document.term_frequencies[term]
    ELSE 0

\* Document::add_term.  entry(term) keeps the key already stored, and with
\* it the flag of the Term that was inserted first.
add_term(document, term) ==
    [document EXCEPT
        !.term_frequencies = Insert(@, hash_key(term), term_frequency(document, hash_key(term)) + 1),
        !.stopword_keys =
            IF hash_key(term) \notin DOMAIN document.term_frequencies /\ term.is_stopword
            THEN @ \cup {hash_key(term)}
            ELSE @,
        !.term_count = @ + 1]

\* Document::add_terms: add_term for each term, in order
RECURSIVE add_terms(_, _)
add_terms(document, terms) ==
    IF terms = <<>> THEN document
    ELSE add_terms(add_term(document, Head(terms)), Tail(terms))

\* Document::clear_terms
clear_terms(document) ==
    [document EXCEPT !.term_frequencies = EmptyMap, !.stopword_keys = {}, !.term_count = 0]

(***************************************************************************)
(* Corpus (domain/corpus.rs): queries.                                     *)
(***************************************************************************)
document_count == Cardinality(DOMAIN documents)

contains_document(document_id) == document_id \in DOMAIN documents

get_document(document_id) ==
    IF document_id \in DOMAIN documents THEN Some(documents[document_id]) ELSE None

is_indexed == indexed

\* Corpus::document_frequency, on a given table
frequency_in(table, term) == IF term \in DOMAIN table THEN table[term] ELSE 0

document_frequency(term) == frequency_in(document_frequencies, term)

\* let unique_terms: HashSet<_> = document.term_frequencies().keys().collect();
unique_terms(document) == DOMAIN document.term_frequencies

(***************************************************************************)
(* The two index updates.  Each is a loop over unique_terms; the HashSet   *)
(* is visited in an unspecified order, and every order gives the same      *)
(* table because the steps touch one entry each.                           *)
(***************************************************************************)
\* Faulty variant of increment_entry: insert(term, 1) in place of the increment.
increment_entry_overwriting(table, term) == Insert(table, term, 1)

\* let count = self.document_frequencies.entry(term.clone()).or_insert(0); *count += 1;
increment_entry(table, term) == Insert(table, term, frequency_in(table, term) + 1)

\* Faulty variant of decrement_entry: the entry is kept when it reaches 0.
decrement_entry_keeping_zero(table, term) ==
    IF term \in DOMAIN table
    THEN Insert(table, term, IF table[term] >= 1 THEN table[term] - 1 ELSE 0)
    ELSE table

\* if let Some(count) = get_mut(term) { *count = count.saturating_sub(1);
\*                                      if *count == 0 { remove(term) } }
decrement_entry(table, term) ==
    IF term \in DOMAIN table
    THEN LET count == IF table[term] >= 1 THEN table[term] - 1 ELSE 0
         IN  IF count = 0 THEN Delete(table, term) ELSE Insert(table, term, count)
    ELSE table

RECURSIVE increment_all(_, _)
increment_all(table, terms) ==
    IF terms = {} THEN table
    ELSE LET term == CHOOSE t \in terms : TRUE
         IN  increment_all(increment_entry(table, term), terms \ {term})

RECURSIVE decrement_all(_, _)
decrement_all(table, terms) ==
    IF terms = {} THEN table
    ELSE LET term == CHOOSE t \in terms : TRUE
         IN  decrement_all(decrement_entry(table, term), terms \ {term})

\* Faulty variant of count_document: every occurrence counts, so a term adds
\* its count in the document.
RECURSIVE add_occurrences(_, _, _)
add_occurrences(table, document, terms) ==
    IF terms = {} THEN table
    ELSE LET term == CHOOSE t \in terms : TRUE
         IN  add_occurrences(
                 Insert(table, term, frequency_in(table, term) + document.term_frequencies[term]),
                 document, terms \ {term})

count_document_occurrences(table, document) ==
    add_occurrences(table, document, unique_terms(document))

\* add_document and build_index: for term in unique_terms { entry(term).or_insert(0) += 1 }
count_document(table, document) == increment_all(table, unique_terms(document))

\* remove_document: for term in unique_terms { decrement, remove at 0 }
discount_document(table, document) == decrement_all(table, unique_terms(document))

\* for document in self.documents.values() { ... entry(term).or_insert(0) += 1 ... }
RECURSIVE scan_documents(_, _, _)
scan_documents(table, docs, ids) ==
    IF ids = {} THEN table
    ELSE LET id == CHOOSE d \in ids : TRUE
         IN  scan_documents(count_document(table, docs[id]), docs, ids \ {id})

(***************************************************************************)
(* What a call returned.                                                   *)
(***************************************************************************)
\* op: the method; result: "Ok", the DomainError variant of an Err, or the bool
\* a method returns; doc: the Document handed back, if any.
Returned(op, result, doc) == [op |-> op, result |-> result, doc |-> doc]

Ok == "Ok"

(***************************************************************************)
(* Corpus: construction and mutation.                                      *)
(***************************************************************************)
\* Corpus::new
Init ==
    /\ documents = EmptyMap
    /\ document_frequencies = EmptyMap
    /\ stopwords = {}
    /\ indexed = FALSE
    /\ name = "Test Corpus"
    /\ description = None
    /\ metadata = EmptyMap
    /\ last = Returned("new", Ok, None)
    /\ previous = EmptyMap
    /\ document_repository = EmptyMap
    /\ corpus_repository = EmptyMap
    /\ in_flight = EmptyMap

\* Faulty variant of add_document: no check for the id, the new document
\* replaces the one held under it.
add_document_overwriting(document) ==
    /\ document_frequencies' =
           IF indexed
           THEN count_document(document_frequencies, document)
           ELSE document_frequencies
    /\ documents' = Insert(documents, document.id, document)
    /\ last' = Returned("add_document", Ok, None)
    /\ previous' = document_frequencies
    /\ UNCHANGED <<Repositories, in_flight, stopwords, indexed, name, description, metadata>>

\* Faulty variant of add_document: the index is updated before the id is
\* checked, so a refused document has been counted.
add_document_indexing_first(document) ==
    /\ document_frequencies' =
           IF indexed
           THEN count_document(document_frequencies, document)
           ELSE document_frequencies
    /\ IF contains_document(document.id)
       THEN /\ last' = Returned("add_document", "InvalidOperation", None)
            /\ UNCHANGED documents
       ELSE /\ last' = Returned("add_document", Ok, None)
            /\ documents' = Insert(documents, document.id, document)
    /\ previous' = document_frequencies
    /\ UNCHANGED <<Repositories, in_flight, stopwords, indexed, name, description, metadata>>

\* Faulty variant of add_document: the index is updated whether or not
\* build_index has been called.
add_document_always_counting(document) ==
    IF contains_document(document.id)
    THEN /\ last' = Returned("add_document", "InvalidOperation", None)
         /\ previous' = document_frequencies
         /\ UNCHANGED <<Repositories, in_flight, documents, document_frequencies, stopwords, indexed,
                        name, description, metadata>>
    ELSE /\ document_frequencies' = count_document(document_frequencies, document)
         /\ documents' = Insert(documents, document.id, document)
         /\ last' = Returned("add_document", Ok, None)
         /\ previous' = document_frequencies
         /\ UNCHANGED <<Repositories, in_flight, stopwords, indexed, name, description, metadata>>

\* Corpus::add_document
add_document(document) ==
    LET document_id == document.id
    IN  IF contains_document(document_id)
        THEN /\ last' = Returned("add_document", "InvalidOperation", None)
             /\ previous' = document_frequencies
             /\ UNCHANGED <<Repositories, in_flight, documents, document_frequencies, stopwords, indexed,
                            name, description, metadata>>
        ELSE /\ document_frequencies' =
                    IF indexed
                    THEN count_document(document_frequencies, document)
                    ELSE document_frequencies
             /\ documents' = Insert(documents, document_id, document)
             /\ last' = Returned("add_document", Ok, None)
             /\ previous' = document_frequencies
             /\ UNCHANGED <<Repositories, in_flight, stopwords, indexed, name, description, metadata>>

\* Faulty variant of remove_document: a removal marks the index as stale.
remove_document_invalidating(document_id) ==
    IF ~contains_document(document_id)
    THEN /\ last' = Returned("remove_document", "NotFound", None)
         /\ previous' = document_frequencies
         /\ UNCHANGED <<Repositories, in_flight, documents, document_frequencies, stopwords, indexed,
                        name, description, metadata>>
    ELSE /\ documents' = Delete(documents, document_id)
         /\ indexed' = FALSE
         /\ last' = Returned("remove_document", Ok, Some(documents[document_id]))
         /\ previous' = document_frequencies
         /\ UNCHANGED <<Repositories, in_flight,
                        document_frequencies, stopwords, name, description, metadata>>

\* Faulty variant of remove_document: a missing id is reported with the
\* error add_document uses.
remove_document_wrong_error(document_id) ==
    IF ~contains_document(document_id)
    THEN /\ last' = Returned("remove_document", "InvalidOperation", None)
         /\ previous' = document_frequencies
         /\ UNCHANGED <<Repositories, in_flight, documents, document_frequencies, stopwords, indexed,
                        name, description, metadata>>
    ELSE /\ documents' = Delete(documents, document_id)
         /\ document_frequencies' =
                IF indexed
                THEN discount_document(document_frequencies, documents[document_id])
                ELSE document_frequencies
         /\ last' = Returned("remove_document", Ok, Some(documents[document_id]))
         /\ previous' = document_frequencies
         /\ UNCHANGED <<Repositories, in_flight, stopwords, indexed, name, description, metadata>>

\* Corpus::remove_document
remove_document(document_id) ==
    IF ~contains_document(document_id)
    THEN /\ last' = Returned("remove_document", "NotFound", None)
         /\ previous' = document_frequencies
         /\ UNCHANGED <<Repositories, in_flight, documents, document_frequencies, stopwords, indexed,
                        name, description, metadata>>
    ELSE LET document == documents[document_id]
         IN  /\ documents' = Delete(documents, document_id)
             /\ document_frequencies' =
                    IF indexed
                    THEN discount_document(document_frequencies, document)
                    ELSE document_frequencies
             /\ last' = Returned("remove_document", Ok, Some(document))
             /\ previous' = document_frequencies
             /\ UNCHANGED <<Repositories, in_flight, stopwords, indexed, name, description, metadata>>

\* Faulty variant of build_index: the table is not cleared before the scan.
build_index_without_clear ==
    /\ document_frequencies' =
           scan_documents(document_frequencies, documents, DOMAIN documents)
    /\ indexed' = TRUE
    /\ last' = Returned("build_index", Ok, None)
    /\ previous' = document_frequencies
    /\ UNCHANGED <<Repositories, in_flight, documents, stopwords, name, description, metadata>>

\* Corpus::build_index
build_index ==
    /\ document_frequencies' = scan_documents(EmptyMap, documents, DOMAIN documents)
    /\ indexed' = TRUE
    /\ last' = Returned("build_index", Ok, None)
    /\ previous' = document_frequencies
    /\ UNCHANGED <<Repositories, in_flight, documents, stopwords, name, description, metadata>>

(***************************************************************************)
(* Edits of a member document through Corpus::get_document_mut, which      *)
(* hands out &mut Document and touches nothing else of the corpus.  With   *)
(* an id the corpus does not hold it returns None and there is nothing to  *)
(* edit.                                                                   *)
(***************************************************************************)
\* corpus.get_document_mut(id).unwrap().add_term(term)
member_add_term(document_id, term) ==
    /\ contains_document(document_id)
    /\ term_frequency(documents[document_id], hash_key(term)) < MaxFreq
    /\ documents[document_id].term_count < MaxCount
    /\ documents' = [documents EXCEPT ![document_id] = add_term(@, term)]
    /\ last' = Returned("add_term", Ok, None)
    /\ previous' = document_frequencies
    /\ UNCHANGED <<Repositories, in_flight,
                   document_frequencies, stopwords, indexed, name, description, metadata>>

\* corpus.get_document_mut(id).unwrap().add_terms(terms)
member_add_terms(document_id, terms) ==
    /\ contains_document(document_id)
    /\ documents[document_id].term_count + Len(terms) <= MaxAdded
    /\ documents' = [documents EXCEPT ![document_id] = add_terms(@, terms)]
    /\ last' = [op |-> "add_terms", result |-> Ok, doc |-> None,
                id |-> document_id, input |-> terms]
    /\ previous' = document_frequencies
    /\ UNCHANGED <<Repositories, in_flight,
                   document_frequencies, stopwords, indexed, name, description, metadata>>

\* corpus.get_document_mut(id).unwrap().clear_terms()
member_clear_terms(document_id) ==
    /\ contains_document(document_id)
    /\ documents' = [documents EXCEPT ![document_id] = clear_terms(@)]
    /\ last' = Returned("clear_terms", Ok, None)
    /\ previous' = document_frequencies
    /\ UNCHANGED <<Repositories, in_flight,
                   document_frequencies, stopwords, indexed, name, description, metadata>>

\* corpus.get_document_mut(id).unwrap().term_frequencies_mut().insert(term, TermFrequency(n))
member_term_frequencies_insert(document_id, term, n) ==
    /\ contains_document(document_id)
    /\ documents' = [documents EXCEPT
                        ![document_id].term_frequencies = Insert(@, hash_key(term), n),
                        ![document_id].stopword_keys =
                            IF hash_key(term) \notin DOMAIN documents[document_id].term_frequencies
                               /\ term.is_stopword
                            THEN @ \cup {hash_key(term)}
                            ELSE @]
    /\ last' = Returned("term_frequencies_mut", Ok, None)
    /\ previous' = document_frequencies
    /\ UNCHANGED <<Repositories, in_flight,
                   document_frequencies, stopwords, indexed, name, description, metadata>>

\* corpus.get_document_mut(id).unwrap().term_frequencies_mut().remove(term)
member_term_frequencies_remove(document_id, term) ==
    /\ contains_document(document_id)
    /\ term \in DOMAIN documents[document_id].term_frequencies
    /\ documents' = [documents EXCEPT
                        ![document_id].term_frequencies = Delete(@, term),
                        ![document_id].stopword_keys = @ \ {term}]
    /\ last' = Returned("term_frequencies_mut", Ok, None)
    /\ previous' = document_frequencies
    /\ UNCHANGED <<Repositories, in_flight,
                   document_frequencies, stopwords, indexed, name, description, metadata>>

(***************************************************************************)
(* Corpus: name, description, stopwords and metadata.                      *)
(***************************************************************************)
\* Corpus::set_name
set_name(new_name) ==
    /\ name' = new_name
    /\ last' = Returned("set_name", Ok, None)
    /\ previous' = document_frequencies
    /\ UNCHANGED <<Repositories, in_flight,
                   documents, document_frequencies, stopwords, indexed, description, metadata>>

\* Corpus::set_description
set_description(new_description) ==
    /\ description' = Some(new_description)
    /\ last' = Returned("set_description", Ok, None)
    /\ previous' = document_frequencies
    /\ UNCHANGED <<Repositories, in_flight,
                   documents, document_frequencies, stopwords, indexed, name, metadata>>

\* Corpus::clear_description
clear_description ==
    /\ description' = None
    /\ last' = Returned("clear_description", Ok, None)
    /\ previous' = document_frequencies
    /\ UNCHANGED <<Repositories, in_flight,
                   documents, document_frequencies, stopwords, indexed, name, metadata>>

\* Corpus::add_stopword
add_stopword(word) ==
    /\ stopwords' = stopwords \cup {word}
    /\ last' = Returned("add_stopword", Ok, None)
    /\ previous' = document_frequencies
    /\ UNCHANGED <<Repositories, in_flight,
                   documents, document_frequencies, indexed, name, description, metadata>>

\* Corpus::add_stopwords: add_stopword for each word
add_stopwords(words) ==
    /\ stopwords' = stopwords \cup words
    /\ last' = Returned("add_stopwords", Ok, None)
    /\ previous' = document_frequencies
    /\ UNCHANGED <<Repositories, in_flight,
                   documents, document_frequencies, indexed, name, description, metadata>>

\* Corpus::remove_stopword: HashSet::remove tells whether the word was there
remove_stopword(word) ==
    /\ stopwords' = stopwords \ {word}
    /\ last' = Returned("remove_stopword", IF word \in stopwords THEN "true" ELSE "false", None)
    /\ previous' = document_frequencies
    /\ UNCHANGED <<Repositories, in_flight,
                   documents, document_frequencies, indexed, name, description, metadata>>

\* Corpus::is_stopword
is_stopword(word) == word \in stopwords

\* Corpus::set_metadata
set_metadata(key, value) ==
    /\ metadata' = Insert(metadata, key, value)
    /\ last' = Returned("set_metadata", Ok, None)
    /\ previous' = document_frequencies
    /\ UNCHANGED <<Repositories, in_flight,
                   documents, document_frequencies, stopwords, indexed, name, description>>

\* corpus.metadata_mut().remove(key)
metadata_mut_remove(key) ==
    /\ key \in DOMAIN metadata
    /\ metadata' = Delete(metadata, key)
    /\ last' = Returned("metadata_mut", Ok, None)
    /\ previous' = document_frequencies
    /\ UNCHANGED <<Repositories, in_flight,
                   documents, document_frequencies, stopwords, indexed, name, description>>

(***************************************************************************)
(* Specifications.                                                         *)
(***************************************************************************)
\* The index's counters have no upper limit in the code; the model stops them
\* at MaxDocFreq, which the counters of an index that matches its documents
\* never exceed (there are no more documents than DocumentIds).
WithinBounds(document) ==
    indexed /\ ~contains_document(document.id)
        => \A term \in unique_terms(document) : document_frequency(term) < MaxDocFreq

\* sum of the counts of a table
RECURSIVE SumOf(_, _)
SumOf(table, terms) ==
    IF terms = {} THEN 0
    ELSE LET term == CHOOSE t \in terms : TRUE
         IN  table[term] + SumOf(table, terms \ {term})

\* The term tables Document::new and add_term build per token, with any keys
\* of count 0 put in through term_frequencies_mut.
TokenizedTables ==
    {table \in TermTables : SumOf(table, DOMAIN table) <= MaxCount}

\* A document with the given table and flagged keys whose term_count is the
\* sum of the counts, as add_term keeps it.
Tokenized(id, table, flagged) ==
    [id |-> id, term_frequencies |-> table, stopword_keys |-> flagged,
     term_count |-> SumOf(table, DOMAIN table)]

\* The documents handed to the engine: any of their terms may have been made
\* by Term::stopword.
TokenizedDocuments ==
    UNION {{Tokenized(id, table, flagged) : id \in DocumentIds,
                                            flagged \in SUBSET DOMAIN table} :
              table \in TokenizedTables}

\* The documents handed to add_document in the corpus specifications.  The
\* index is keyed by text and no Corpus method reads a flag or term_count:
\* their terms were all made by Term::new.
InputDocuments ==
    {Tokenized(id, table, {}) : id \in DocumentIds, table \in TokenizedTables}

AddDocument ==
    \E document \in InputDocuments : WithinBounds(document) /\ add_document(document)

RemoveDocument == \E document_id \in DocumentIds : remove_document(document_id)

BuildIndex == build_index

MemberAddTerm ==
    \E document_id \in DocumentIds, text \in TermTexts :
        member_add_term(document_id, TermNew(text))

MemberClearTerms == \E document_id \in DocumentIds : member_clear_terms(document_id)

MemberTermFrequenciesInsert ==
    \E document_id \in DocumentIds, text \in TermTexts, n \in 0..MaxFreq :
        member_term_frequencies_insert(document_id, TermNew(text), n)

MemberTermFrequenciesRemove ==
    \E document_id \in DocumentIds, term \in TermTexts :
        member_term_frequencies_remove(document_id, term)

\* The corpus with every way of changing its documents.  The member edits
\* turn an input document into any value of Documents.
Next ==
    \/ AddDocument
    \/ RemoveDocument
    \/ BuildIndex
    \/ MemberAddTerm
    \/ MemberClearTerms
    \/ MemberTermFrequenciesInsert
    \/ MemberTermFrequenciesRemove

Spec == Init /\ [][Next]_vars

\* The corpus when its documents change by add_document and remove_document
\* alone: no member document is edited in place.
NextIndex ==
    \/ AddDocument
    \/ RemoveDocument
    \/ BuildIndex

SpecIndex == Init /\ [][NextIndex]_vars

SetName == \E new_name \in Names : set_name(new_name)

SetDescription == \E new_description \in Descriptions : set_description(new_description)

ClearDescription == clear_description

AddStopword == \E word \in Words : add_stopword(word)

AddStopwords == \E words \in SUBSET Words : add_stopwords(words)

RemoveStopword == \E word \in Words : remove_stopword(word)

SetMetadata == \E key \in MetadataKeys, value \in MetadataValues : set_metadata(key, value)

MetadataMutRemove == \E key \in MetadataKeys : metadata_mut_remove(key)

\* The corpus with every one of its own mutators.
NextCorpus ==
    \/ AddDocument
    \/ RemoveDocument
    \/ BuildIndex
    \/ SetName
    \/ SetDescription
    \/ ClearDescription
    \/ AddStopword
    \/ AddStopwords
    \/ RemoveStopword
    \/ SetMetadata
    \/ MetadataMutRemove

SpecCorpus == Init /\ [][NextCorpus]_vars

(***************************************************************************)
(* f64.  A value is NaN, an infinity, or a finite number held in           *)
(* ten-thousandths (1.0 is Unit).  What the engine's results depend on is  *)
(* kept: the sign of a value, whether it is exactly 0.0, the order of two  *)
(* values, and the IEEE 754 rules for infinities and NaN.  ln is exact on  *)
(* the sign and the zero: ln(p / q) is 0.0 exactly when p = q.  Products,  *)
(* quotients and roots are rounded down to a ten-thousandth, as f64 rounds *)
(* to its last bit: a result that is exact in the reals need not be exact  *)
(* here or there.                                                          *)
(***************************************************************************)
Unit == 10000

Finite(v) == [nan |-> FALSE, inf |-> 0, v |-> v]
NaN == [nan |-> TRUE, inf |-> 0, v |-> 0]
Infinity == [nan |-> FALSE, inf |-> 1, v |-> 0]
NegInfinity == [nan |-> FALSE, inf |-> -1, v |-> 0]
Zero == Finite(0)
One == Finite(Unit)

\* n as f64
AsF64(n) == Finite(n * Unit)

is_nan(x) == x.nan
is_finite(x) == ~x.nan /\ x.inf = 0

Sign(x) ==
    IF x.inf # 0 THEN x.inf
    ELSE IF x.v > 0 THEN 1 ELSE IF x.v < 0 THEN -1 ELSE 0

Abs(n) == IF n < 0 THEN 0 - n ELSE n

Signed(sign, magnitude) == IF sign < 0 THEN 0 - magnitude ELSE magnitude

\* The rounding error allowed to a value computed in ten-thousandths, where
\* the program's tests allow f64::EPSILON.
Epsilon == 10

\* (a - b).abs() < epsilon
Near(a, b) == is_finite(a) /\ is_finite(b) /\ Abs(a.v - b.v) < Epsilon

\* a == b
F64Eq(a, b) == ~a.nan /\ ~b.nan /\ a.inf = b.inf /\ a.v = b.v

\* a > b
F64Gt(a, b) ==
    /\ ~a.nan /\ ~b.nan
    /\ \/ a.inf > b.inf
       \/ a.inf = 0 /\ b.inf = 0 /\ a.v > b.v

\* a + b
F64Add(a, b) ==
    IF a.nan \/ b.nan THEN NaN
    ELSE IF a.inf # 0 /\ b.inf # 0 THEN (IF a.inf = b.inf THEN a ELSE NaN)
    ELSE IF a.inf # 0 THEN a
    ELSE IF b.inf # 0 THEN b
    ELSE Finite(a.v + b.v)

\* m * n / Unit for two magnitudes, rounded down, taken by parts so that no
\* intermediate value leaves the range of the integers
Scaled(m, n) ==
    (m \div Unit) * n + (m % Unit) * (n \div Unit) + ((m % Unit) * (n % Unit)) \div Unit

\* a * b
F64Mul(a, b) ==
    IF a.nan \/ b.nan THEN NaN
    ELSE IF a.inf # 0 \/ b.inf # 0
         THEN (IF Sign(a) * Sign(b) = 0 THEN NaN
               ELSE IF Sign(a) * Sign(b) > 0 THEN Infinity ELSE NegInfinity)
    ELSE Finite(Signed(Sign(a) * Sign(b), Scaled(Abs(a.v), Abs(b.v))))

\* a / b
F64Div(a, b) ==
    IF a.nan \/ b.nan THEN NaN
    ELSE IF a.inf # 0
         THEN (IF b.inf # 0 THEN NaN
               ELSE IF a.inf * (IF b.v < 0 THEN -1 ELSE 1) > 0 THEN Infinity ELSE NegInfinity)
    ELSE IF b.inf # 0 THEN Zero
    ELSE IF b.v = 0
         THEN (IF a.v = 0 THEN NaN ELSE IF a.v > 0 THEN Infinity ELSE NegInfinity)
    ELSE Finite(Signed(Sign(a) * Sign(b), (Abs(a.v) * Unit) \div Abs(b.v)))

\* the largest r with r * r <= n, by Newton's iteration from above
RECURSIVE IntSqrtFrom(_, _)
IntSqrtFrom(n, r) ==
    LET next == (r + n \div r) \div 2
    IN  IF next >= r THEN r ELSE IntSqrtFrom(n, next)

IntSqrt(n) == IF n = 0 THEN 0 ELSE IntSqrtFrom(n, n)

\* a.sqrt().  IEEE 754 rounds the root correctly, so that (x * x).sqrt() is
\* x.abs() although x * x was rounded; the root here is the largest r whose
\* square rounds down to a, and so the root of a rounded square squares back
\* to it.
F64Sqrt(a) ==
    IF a.nan THEN NaN
    ELSE IF a.inf = 1 THEN Infinity
    ELSE IF a.inf = -1 \/ a.v < 0 THEN NaN
    ELSE IF a.v = 0 THEN Zero
    ELSE Finite(IntSqrt((a.v + 1) * Unit - 1))

\* ln(n) in ten-thousandths, n = 1, 2, ...
LnTable == <<0, 6931, 10986, 13863, 16094, 17918, 19459, 20794>>

\* (p as f64 / q as f64).ln() for two counts
LnRatio(p, q) ==
    IF q = 0 THEN (IF p = 0 THEN NaN ELSE Infinity)
    ELSE IF p = 0 THEN NegInfinity
    ELSE Finite(LnTable[p] - LnTable[q])

(***************************************************************************)
(* Document and Corpus: the f64 queries the engine reads.                  *)
(***************************************************************************)
\* Document::normalized_term_frequency
normalized_term_frequency(document, term) ==
    IF document.term_count = 0 THEN Zero
    ELSE F64Div(AsF64(term_frequency(document, hash_key(term))), AsF64(document.term_count))

\* Corpus::inverse_document_frequency
inverse_document_frequency(term) ==
    IF document_count = 0 THEN Zero
    ELSE IF document_frequency(hash_key(term)) = 0 THEN Zero
    ELSE LnRatio(document_count, document_frequency(hash_key(term)))

\* The Term stored as a key of the document's table (its stem is not kept
\* by the model: the documents of the engine hold terms without a stem).
stored_term(document, text) ==
    [text |-> text, is_stopword |-> text \in document.stopword_keys, stem |-> None]

(***************************************************************************)
(* TfIdf (domain/tf_idf.rs).  The engine holds its options and nothing     *)
(* else; every operation reads the corpus and returns a DomainResult.      *)
(***************************************************************************)
\* Two functions a caller may pass as overrides.  Each tells its first
\* argument from its second.
count_and_total(term_count, total_terms) == AsF64(10 * term_count + total_terms)
freq_and_docs(doc_freq, total_docs) == AsF64(10 * doc_freq + total_docs)

\* Option<fn(usize, usize) -> f64>: None, or Some of the name of a function
TfWeightings == {None, Some("count_and_total")}
IdfWeightings == {None, Some("freq_and_docs")}

\* TfIdfOptions
TfIdfOptions ==
    [apply_smoothing : BOOLEAN, normalize : BOOLEAN, use_log_tf : BOOLEAN,
     filter_stopwords : BOOLEAN, tf_weighting : TfWeightings,
     idf_weighting : IdfWeightings]

\* TfIdfOptions::default
DefaultOptions ==
    [apply_smoothing |-> TRUE, normalize |-> TRUE, use_log_tf |-> TRUE,
     filter_stopwords |-> TRUE, tf_weighting |-> None, idf_weighting |-> None]

\* DomainResult<T>
Err(error) == [result |-> error, value |-> None]
Success(value) == [result |-> Ok, value |-> value]

\* Faulty variant of NewTfIdfScore: the score is the tf component.
NewTfIdfScoreOfTf(term, tf, idf) ==
    [term |-> term, tf |-> tf, idf |-> idf, score |-> tf]

\* TfIdfScore::new
NewTfIdfScore(term, tf, idf) ==
    [term |-> term, tf |-> tf, idf |-> idf, score |-> F64Mul(tf, idf)]

\* ScoredDocument::new
NewScoredDocument(document, score, term_scores) ==
    [document |-> document, score |-> score, term_scores |-> term_scores]

\* Faulty variant of term_tf: use_log_tf is looked at before the override.
term_tf_preferring_log(options, term, document) ==
    IF options.use_log_tf
    THEN LET tf_raw == term_frequency(document, hash_key(term))
         IN  IF tf_raw > 0 THEN F64Add(One, LnRatio(tf_raw, 1)) ELSE Zero
    ELSE IF options.tf_weighting # None
         THEN count_and_total(term_frequency(document, hash_key(term)), document.term_count)
    ELSE normalized_term_frequency(document, term)

\* the TF of calculate_term_tfidf
term_tf(options, term, document) ==
    IF options.tf_weighting # None
    THEN count_and_total(term_frequency(document, hash_key(term)), document.term_count)
    ELSE IF options.use_log_tf
         THEN LET tf_raw == term_frequency(document, hash_key(term))
              IN  IF tf_raw > 0 THEN F64Add(One, LnRatio(tf_raw, 1)) ELSE Zero
    ELSE normalized_term_frequency(document, term)

\* the IDF of calculate_term_tfidf
term_idf(options, term) ==
    IF options.idf_weighting # None
    THEN freq_and_docs(document_frequency(hash_key(term)), document_count)
    ELSE IF options.apply_smoothing
         THEN LnRatio(document_count, document_frequency(hash_key(term)) + 1)
    ELSE inverse_document_frequency(term)

\* Faulty variant of calculate_term_tfidf: the stopword check comes before
\* the check of the index.
calculate_term_tfidf_filtering_first(options, term, document) ==
    IF options.filter_stopwords /\ term.is_stopword THEN Err("InvalidCalculation")
    ELSE IF ~is_indexed THEN Err("CorpusNotIndexed")
    ELSE Success(NewTfIdfScore(term, term_tf(options, term, document),
                               term_idf(options, term)))

\* Faulty variant of calculate_term_tfidf: a stopword is refused whatever
\* filter_stopwords says.
calculate_term_tfidf_always_filtering(options, term, document) ==
    IF ~is_indexed THEN Err("CorpusNotIndexed")
    ELSE IF term.is_stopword THEN Err("InvalidCalculation")
    ELSE Success(NewTfIdfScore(term, term_tf(options, term, document),
                               term_idf(options, term)))

\* Faulty variant of calculate_term_tfidf: a term whose text is in the
\* corpus's stopword set is filtered as well.
calculate_term_tfidf_by_corpus_stopwords(options, term, document) ==
    IF ~is_indexed THEN Err("CorpusNotIndexed")
    ELSE IF options.filter_stopwords /\ (term.is_stopword \/ is_stopword(term.text))
         THEN Err("InvalidCalculation")
    ELSE Success(NewTfIdfScore(term, term_tf(options, term, document),
                               term_idf(options, term)))

\* TfIdf::calculate_term_tfidf
calculate_term_tfidf(options, term, document) ==
    IF ~is_indexed THEN Err("CorpusNotIndexed")
    ELSE IF options.filter_stopwords /\ term.is_stopword THEN Err("InvalidCalculation")
    ELSE Success(NewTfIdfScore(term, term_tf(options, term, document),
                               term_idf(options, term)))

\* scores.iter().map(|score| score.score * score.score).sum()
RECURSIVE sum_of_squares(_)
sum_of_squares(scores) ==
    IF scores = <<>> THEN Zero
    ELSE F64Add(F64Mul(Head(scores).score, Head(scores).score),
                sum_of_squares(Tail(scores)))

\* TfIdf::normalize_scores: the score field alone is divided
normalize_scores(scores) ==
    IF F64Eq(sum_of_squares(scores), Zero) THEN scores
    ELSE LET normalization_factor == F64Sqrt(sum_of_squares(scores))
         IN  [i \in 1..Len(scores) |->
                 [scores[i] EXCEPT !.score = F64Div(@, normalization_factor)]]

\* One step of a stable sort with the comparator
\* |a, b| b.score.partial_cmp(&a.score).unwrap_or(Equal): entry goes in
\* front of the entries at the end of the sorted list whose score is lower,
\* and stays behind an entry it is equal to or cannot be compared with.
RECURSIVE insert_by_score(_, _)
insert_by_score(sorted, entry) ==
    IF sorted = <<>> THEN <<entry>>
    ELSE LET final == sorted[Len(sorted)]
         IN  IF F64Gt(entry.score, final.score)
             THEN Append(insert_by_score(SubSeq(sorted, 1, Len(sorted) - 1), entry), final)
             ELSE Append(sorted, entry)

\* Faulty variant of sort_by_score: the list is left in the order it was built.
unsorted(entries) == entries

\* entries.sort_by(..): highest score first
RECURSIVE sort_by_score(_)
sort_by_score(entries) ==
    IF entries = <<>> THEN <<>>
    ELSE insert_by_score(sort_by_score(SubSeq(entries, 1, Len(entries) - 1)),
                         entries[Len(entries)])

\* Faulty variant of document_scores: a stopword is not skipped and the
\* error of the single-term call ends the batch.
RECURSIVE document_scores_propagating(_, _, _)
document_scores_propagating(options, document, keys) ==
    IF keys = <<>> THEN Success(<<>>)
    ELSE LET one == calculate_term_tfidf(options, stored_term(document, Head(keys)), document)
             rest == document_scores_propagating(options, document, Tail(keys))
         IN  IF one.result # Ok THEN one
             ELSE IF rest.result # Ok THEN rest
             ELSE Success(<<one.value>> \o rest.value)

\* Faulty variant of document_scores: a term whose score is 0.0 gets no
\* entry.
RECURSIVE document_scores_dropping_zero(_, _, _)
document_scores_dropping_zero(options, document, keys) ==
    IF keys = <<>> THEN Success(<<>>)
    ELSE LET term == stored_term(document, Head(keys))
             rest == document_scores_dropping_zero(options, document, Tail(keys))
         IN  IF options.filter_stopwords /\ term.is_stopword THEN rest
             ELSE LET one == calculate_term_tfidf(options, term, document)
                  IN  IF one.result = Ok
                      THEN (IF rest.result # Ok THEN rest
                            ELSE IF F64Eq(one.value.score, Zero) THEN rest
                            ELSE Success(<<one.value>> \o rest.value))
                      ELSE IF one.result = "InvalidCalculation" THEN rest
                      ELSE one

\* The loop of calculate_document_tfidf over the table's keys in the order
\* the HashMap yields them.
RECURSIVE document_scores(_, _, _)
document_scores(options, document, keys) ==
    IF keys = <<>> THEN Success(<<>>)
    ELSE LET term == stored_term(document, Head(keys))
             rest == document_scores(options, document, Tail(keys))
         IN  IF options.filter_stopwords /\ term.is_stopword THEN rest
             ELSE LET one == calculate_term_tfidf(options, term, document)
                  IN  IF one.result = Ok
                      THEN (IF rest.result = Ok
                            THEN Success(<<one.value>> \o rest.value)
                            ELSE rest)
                      ELSE IF one.result = "InvalidCalculation" THEN rest
                      ELSE one

\* TfIdf::calculate_document_tfidf; keys is the iteration order of
\* document.term_frequencies()
calculate_document_tfidf(options, document, keys) ==
    IF ~is_indexed THEN Err("CorpusNotIndexed")
    ELSE LET scores == document_scores(options, document, keys)
         IN  IF scores.result # Ok THEN scores
             ELSE Success(sort_by_score(IF options.normalize
                                        THEN normalize_scores(scores.value)
                                        ELSE scores.value))

\* Faulty variant of query_scores: a query term the document does not hold
\* gets no entry.
RECURSIVE query_scores_skipping_absent(_, _, _)
query_scores_skipping_absent(options, query_terms, document) ==
    IF query_terms = <<>> THEN Success(<<>>)
    ELSE LET term == Head(query_terms)
             rest == query_scores_skipping_absent(options, Tail(query_terms), document)
         IN  IF options.filter_stopwords /\ term.is_stopword THEN rest
             ELSE IF term_frequency(document, hash_key(term)) = 0 THEN rest
             ELSE LET one == calculate_term_tfidf(options, term, document)
                  IN  IF one.result = Ok
                      THEN (IF rest.result = Ok
                            THEN Success(<<one.value>> \o rest.value)
                            ELSE rest)
                      ELSE IF one.result = "InvalidCalculation" THEN rest
                      ELSE one

\* The inner loop of search: the scores of one document for the query terms,
\* in query order.
RECURSIVE query_scores(_, _, _)
query_scores(options, query_terms, document) ==
    IF query_terms = <<>> THEN Success(<<>>)
    ELSE LET term == Head(query_terms)
             rest == query_scores(options, Tail(query_terms), document)
         IN  IF options.filter_stopwords /\ term.is_stopword THEN rest
             ELSE LET one == calculate_term_tfidf(options, term, document)
                  IN  IF one.result = Ok
                      THEN (IF rest.result = Ok
                            THEN Success(<<one.value>> \o rest.value)
                            ELSE rest)
                      ELSE IF one.result = "InvalidCalculation" THEN rest
                      ELSE one

\* doc_score += score.score(), from 0.0, in query order
RECURSIVE sum_of_scores(_)
sum_of_scores(scores) ==
    IF scores = <<>> THEN Zero
    ELSE F64Add(sum_of_scores(SubSeq(scores, 1, Len(scores) - 1)),
                scores[Len(scores)].score)

\* if doc_score > 0.0
is_relevant(doc_score) == F64Gt(doc_score, Zero)

\* The outer loop of search over corpus.documents() in the order the HashMap
\* yields them.
RECURSIVE search_results(_, _, _)
search_results(options, query_terms, ids) ==
    IF ids = <<>> THEN Success(<<>>)
    ELSE LET document == documents[Head(ids)]
             term_scores == query_scores(options, query_terms, document)
             rest == search_results(options, query_terms, Tail(ids))
         IN  IF term_scores.result # Ok THEN term_scores
             ELSE IF rest.result # Ok THEN rest
             ELSE LET doc_score == sum_of_scores(term_scores.value)
                  IN  IF is_relevant(doc_score)
                      THEN Success(<<NewScoredDocument(document, doc_score,
                                                       term_scores.value)>>
                                   \o rest.value)
                      ELSE rest

\* TfIdf::search; ids is the iteration order of corpus.documents()
search(options, query_terms, ids) ==
    IF ~is_indexed THEN Err("CorpusNotIndexed")
    ELSE LET results == search_results(options, query_terms, ids)
         IN  IF results.result # Ok THEN results
             ELSE Success(sort_by_score(results.value))

\* The elements of a set, one after the other.
RECURSIVE SeqOf(_)
SeqOf(set) ==
    IF set = {} THEN <<>>
    ELSE LET x == CHOOSE y \in set : TRUE
         IN  <<x>> \o SeqOf(set \ {x})

\* The orders in which a HashMap may yield its keys.
Orders(set) ==
    {order \in [1..Cardinality(set) -> set] :
        \A i, j \in 1..Cardinality(set) : order[i] = order[j] => i = j}

\* for score in scores { vector.insert(score.term().text().to_string(), score.score()) }
RECURSIVE vector_of(_)
vector_of(scores) ==
    IF scores = <<>> THEN EmptyMap
    ELSE Insert(vector_of(SubSeq(scores, 1, Len(scores) - 1)),
                scores[Len(scores)].term.text, scores[Len(scores)].score)

\* Faulty variant of document_vectors: a document whose vector is empty gets
\* no entry.
RECURSIVE document_vectors_skipping_empty(_, _)
document_vectors_skipping_empty(options, ids) ==
    IF ids = <<>> THEN Success(EmptyMap)
    ELSE LET document == documents[Head(ids)]
             scores == calculate_document_tfidf(options, document,
                                                SeqOf(DOMAIN document.term_frequencies))
             rest == document_vectors_skipping_empty(options, Tail(ids))
         IN  IF scores.result # Ok THEN scores
             ELSE IF rest.result # Ok THEN rest
             ELSE IF scores.value = <<>> THEN rest
             ELSE Success(Insert(rest.value, document.id, vector_of(scores.value)))

\* The loop of generate_document_vectors.  The vectors are maps, so the
\* order in which documents and terms are visited does not show.
RECURSIVE document_vectors(_, _)
document_vectors(options, ids) ==
    IF ids = <<>> THEN Success(EmptyMap)
    ELSE LET document == documents[Head(ids)]
             scores == calculate_document_tfidf(options, document,
                                                SeqOf(DOMAIN document.term_frequencies))
             rest == document_vectors(options, Tail(ids))
         IN  IF scores.result # Ok THEN scores
             ELSE IF rest.result # Ok THEN rest
             ELSE Success(Insert(rest.value, document.id, vector_of(scores.value)))

\* TfIdf::generate_document_vectors
generate_document_vectors(options) ==
    IF ~is_indexed THEN Err("CorpusNotIndexed")
    ELSE document_vectors(options, SeqOf(DOMAIN documents))

\* vec.get(&term).copied().unwrap_or(0.0)
component(vector, term) == IF term \in DOMAIN vector THEN vector[term] ELSE Zero

\* the sum of val1 * val2 over the terms
RECURSIVE dot(_, _, _)
dot(vec1, vec2, terms) ==
    IF terms = <<>> THEN Zero
    ELSE F64Add(F64Mul(component(vec1, Head(terms)), component(vec2, Head(terms))),
                dot(vec1, vec2, Tail(terms)))

\* Faulty variant of cosine_similarity: the dot product is returned as it is.
cosine_similarity_undivided(options, doc1_id, doc2_id) ==
    LET vectors == generate_document_vectors(options)
    IN  IF vectors.result # Ok THEN vectors
        ELSE IF doc1_id \notin DOMAIN vectors.value THEN Err("DocumentNotFound")
        ELSE IF doc2_id \notin DOMAIN vectors.value THEN Err("DocumentNotFound")
        ELSE LET vec1 == vectors.value[doc1_id]
                 vec2 == vectors.value[doc2_id]
                 all_terms == SeqOf(DOMAIN vec1 \cup DOMAIN vec2)
             IN  Success(dot(vec1, vec2, all_terms))

\* Faulty variant of cosine_similarity: the quotient is taken whatever the
\* magnitude is.
cosine_similarity_dividing(options, doc1_id, doc2_id) ==
    LET vectors == generate_document_vectors(options)
    IN  IF vectors.result # Ok THEN vectors
        ELSE IF doc1_id \notin DOMAIN vectors.value THEN Err("DocumentNotFound")
        ELSE IF doc2_id \notin DOMAIN vectors.value THEN Err("DocumentNotFound")
        ELSE LET vec1 == vectors.value[doc1_id]
                 vec2 == vectors.value[doc2_id]
                 all_terms == SeqOf(DOMAIN vec1 \cup DOMAIN vec2)
                 dot_product == dot(vec1, vec2, all_terms)
                 magnitude == F64Mul(F64Sqrt(dot(vec1, vec1, all_terms)),
                                     F64Sqrt(dot(vec2, vec2, all_terms)))
             IN  Success(F64Div(dot_product, magnitude))

\* TfIdf::cosine_similarity
cosine_similarity(options, doc1_id, doc2_id) ==
    LET vectors == generate_document_vectors(options)
    IN  IF vectors.result # Ok THEN vectors
        ELSE IF doc1_id \notin DOMAIN vectors.value THEN Err("DocumentNotFound")
        ELSE IF doc2_id \notin DOMAIN vectors.value THEN Err("DocumentNotFound")
        ELSE LET vec1 == vectors.value[doc1_id]
                 vec2 == vectors.value[doc2_id]
                 all_terms == SeqOf(DOMAIN vec1 \cup DOMAIN vec2)
                 dot_product == dot(vec1, vec2, all_terms)
                 magnitude == F64Mul(F64Sqrt(dot(vec1, vec1, all_terms)),
                                     F64Sqrt(dot(vec2, vec2, all_terms)))
             IN  IF F64Eq(magnitude, Zero) THEN Success(Zero)
                 ELSE Success(F64Div(dot_product, magnitude))

(***************************************************************************)
(* The engine specification.  Every engine operation is a function of the  *)
(* options, its arguments and the corpus it is handed, so the corpus is    *)
(* drawn in the initial state: any set of tokenized documents, either      *)
(* never indexed (the table is the empty map of Corpus::new) or indexed    *)
(* (the table is the one build_index computes, which add_document and      *)
(* remove_document keep).  An action is one call; last holds its options,  *)
(* its arguments, the iteration order the HashMap gave and what it         *)
(* returned.  TfIdf holds its options and no other state, and no call      *)
(* writes to the corpus, so a call returns the same whether or not other   *)
(* calls came before it: a behaviour makes one call on the corpus drawn.   *)
(***************************************************************************)
Called(op, options, input, order, outcome) ==
    [op |-> op, result |-> outcome.result, doc |-> None, options |-> options,
     input |-> input, order |-> order, value |-> outcome.value]

\* The term tables add_term builds per token: every key has a count.
CountedTables == {table \in TokenizedTables : \A text \in DOMAIN table : table[text] > 0}

\* The member documents of the engine specification.
EngineDocuments ==
    {Tokenized(id, table, {}) : id \in DocumentIds, table \in CountedTables}

\* The documents handed to calculate_document_tfidf, members of the corpus
\* or not: any key may be flagged is_stopword.
ScoredDocuments ==
    UNION {{Tokenized("doc1", table, flagged) : flagged \in SUBSET DOMAIN table} :
              table \in CountedTables}

\* The documents handed to calculate_term_tfidf, members of the corpus or not.
ProbedDocuments == {Tokenized("doc1", table, {}) : table \in CountedTables}

Corpora ==
    UNION {{docs \in [ids -> EngineDocuments] : \A id \in ids : docs[id].id = id} :
              ids \in SUBSET DocumentIds}

\* The options with the built-in weighting.
BuiltInOptions ==
    {options \in TfIdfOptions :
        options.tf_weighting = None /\ options.idf_weighting = None}

\* The queries: no term, one term, two terms.
Queries ==
    {<<>>} \cup {<<term>> : term \in Terms}
           \cup {<<term, other>> : term \in Terms, other \in Terms}

InitEngine ==
    /\ documents \in Corpora
    /\ indexed \in BOOLEAN
    /\ document_frequencies =
           IF indexed THEN scan_documents(EmptyMap, documents, DOMAIN documents)
           ELSE EmptyMap
    /\ stopwords = {}
    /\ name = "Test Corpus"
    /\ description = None
    /\ metadata = EmptyMap
    /\ last = Returned(IF indexed THEN "build_index"
                       ELSE IF documents = EmptyMap THEN "new" ELSE "add_document",
                       Ok, None)
    /\ previous = EmptyMap
    /\ document_repository = EmptyMap
    /\ corpus_repository = EmptyMap
    /\ in_flight = EmptyMap

Corpus == <<documents, document_frequencies, stopwords, indexed, name, description, metadata>>

EngineOps ==
    {"calculate_term_tfidf", "calculate_document_tfidf", "search",
     "generate_document_vectors", "cosine_similarity"}

\* No engine call has been made on the corpus yet.
FirstCall == last.op \notin EngineOps

CalculateTermTfidf ==
    /\ FirstCall
    /\ \E options \in TfIdfOptions, term \in Terms, document \in ProbedDocuments :
           /\ last' = Called("calculate_term_tfidf", options, <<term, document>>, <<>>,
                             calculate_term_tfidf(options, term, document))
           /\ previous' = document_frequencies
           /\ UNCHANGED <<Corpus, Repositories, in_flight>>

CalculateDocumentTfidf ==
    /\ FirstCall
    /\ \E options \in BuiltInOptions, document \in ScoredDocuments :
           \E keys \in Orders(DOMAIN document.term_frequencies) :
               /\ last' = Called("calculate_document_tfidf", options, document, keys,
                                 calculate_document_tfidf(options, document, keys))
               /\ previous' = document_frequencies
               /\ UNCHANGED <<Corpus, Repositories, in_flight>>

\* Faulty variant of Search: an engine that builds the index of the corpus
\* it is handed before it searches.
SearchBuildingIndex ==
    /\ FirstCall
    /\ \E options \in BuiltInOptions, query_terms \in Queries :
           \E ids \in Orders(DOMAIN documents) :
               /\ indexed' = TRUE
               /\ document_frequencies' =
                      scan_documents(EmptyMap, documents, DOMAIN documents)
               /\ last' = Called("search", options, query_terms, ids,
                                 search(options, query_terms, ids))
               /\ previous' = document_frequencies
               /\ UNCHANGED <<Repositories, in_flight, documents, stopwords, name, description, metadata>>

Search ==
    /\ FirstCall
    /\ \E options \in BuiltInOptions, query_terms \in Queries :
           \E ids \in Orders(DOMAIN documents) :
               /\ last' = Called("search", options, query_terms, ids,
                                 search(options, query_terms, ids))
               /\ previous' = document_frequencies
               /\ UNCHANGED <<Corpus, Repositories, in_flight>>

GenerateDocumentVectors ==
    /\ FirstCall
    /\ \E options \in BuiltInOptions :
           /\ last' = Called("generate_document_vectors", options, <<>>, <<>>,
                             generate_document_vectors(options))
           /\ previous' = document_frequencies
           /\ UNCHANGED <<Corpus, Repositories, in_flight>>

CosineSimilarity ==
    /\ FirstCall
    /\ \E options \in BuiltInOptions :
           \E doc1_id \in DocumentIds \cup {"doc0"}, doc2_id \in DocumentIds \cup {"doc0"} :
               /\ last' = Called("cosine_similarity", options, <<doc1_id, doc2_id>>, <<>>,
                                 cosine_similarity(options, doc1_id, doc2_id))
               /\ previous' = document_frequencies
               /\ UNCHANGED <<Corpus, Repositories, in_flight>>

NextEngine ==
    \/ CalculateTermTfidf
    \/ CalculateDocumentTfidf
    \/ Search
    \/ GenerateDocumentVectors
    \/ CosineSimilarity

SpecEngine == InitEngine /\ [][NextEngine]_vars

----------------------------------------------------------------------------
(* The engine on a corpus whose stopword set is edited.  Here last keeps   *)
(* the engine's call across the edits of the stopword set that come after  *)
(* it, so that what the call returned can be set against what the same     *)
(* call returns on the corpus as the edits left it.                        *)

\* The words given to the stopword operations: the text of a term the
\* documents and the queries hold.
StopwordTexts == {"this"}

\* What a stopword operation does to the corpus: the set is replaced, no
\* other field is written.
stopwords_set_to(words) ==
    /\ stopwords' = words
    /\ UNCHANGED <<documents, document_frequencies, indexed, name, description,
                   metadata, last, previous, Repositories, in_flight>>

\* Corpus::add_stopword
AddStopwordText == \E word \in StopwordTexts : stopwords_set_to(stopwords \cup {word})

\* Corpus::add_stopwords
AddStopwordTexts ==
    \E words \in SUBSET StopwordTexts : stopwords_set_to(stopwords \cup words)

\* Corpus::remove_stopword
RemoveStopwordText == \E word \in StopwordTexts : stopwords_set_to(stopwords \ {word})

NextStopwords ==
    \/ CalculateTermTfidf
    \/ CalculateDocumentTfidf
    \/ Search
    \/ CosineSimilarity
    \/ AddStopwordText
    \/ AddStopwordTexts
    \/ RemoveStopwordText

SpecStopwords == InitEngine /\ [][NextStopwords]_vars

\* The engine on a corpus whose members are edited in place after the index
\* was built: get_document_mut(id).add_term(term), then one call.
NextStaleEngine ==
    \/ MemberAddTerm
    \/ CalculateTermTfidf
    \/ Search

SpecStaleEngine == InitEngine /\ [][NextStaleEngine]_vars

(***************************************************************************)
(* The document specification: one document of a corpus takes terms made   *)
(* by each constructor of Term, is cleared, and is indexed.                *)
(***************************************************************************)
\* The terms added: Term::new, Term::stopword and Term::with_stem of a text.
AddedTerms ==
    {TermNew(text) : text \in TermTexts}
        \cup {TermStopword(text) : text \in TermTexts}
        \cup {TermWithStem(text, stem) : text \in TermTexts, stem \in Stems}

\* The arguments of add_terms; add_term is the sequence of one term.
TermSequences == UNION {[1..n -> AddedTerms] : n \in 1..MaxAdded}

InitDocument ==
    /\ documents = [id \in {"doc1"} |-> NewDocument(id)]
    /\ document_frequencies = EmptyMap
    /\ stopwords = {}
    /\ indexed = FALSE
    /\ name = "Test Corpus"
    /\ description = None
    /\ metadata = EmptyMap
    /\ last = Returned("add_document", Ok, None)
    /\ previous = EmptyMap
    /\ document_repository = EmptyMap
    /\ corpus_repository = EmptyMap
    /\ in_flight = EmptyMap

MemberAddTerms ==
    \E document_id \in DocumentIds, terms \in TermSequences :
        member_add_terms(document_id, terms)

NextDocument ==
    \/ MemberAddTerms
    \/ MemberClearTerms
    \/ BuildIndex

SpecDocument == InitDocument /\ [][NextDocument]_vars

(***************************************************************************)
(* The vector specification: generate_document_vectors and                 *)
(* cosine_similarity on a corpus whose members may hold keys flagged       *)
(* is_stopword (Document::add_term takes any Term).  build_index counts a  *)
(* flagged key as any other.                                               *)
(***************************************************************************)
\* The member documents of the vector specification.
FlaggedDocuments ==
    UNION {{Tokenized(id, table, flagged) :
               id \in DocumentIds, flagged \in SUBSET DOMAIN table} :
              table \in CountedTables}

FlaggedCorpora ==
    UNION {{docs \in [ids -> FlaggedDocuments] : \A id \in ids : docs[id].id = id} :
              ids \in SUBSET DocumentIds}

InitVectors ==
    /\ documents \in FlaggedCorpora
    /\ indexed \in BOOLEAN
    /\ document_frequencies =
           IF indexed THEN scan_documents(EmptyMap, documents, DOMAIN documents)
           ELSE EmptyMap
    /\ stopwords = {}
    /\ name = "Test Corpus"
    /\ description = None
    /\ metadata = EmptyMap
    /\ last = Returned(IF indexed THEN "build_index"
                       ELSE IF documents = EmptyMap THEN "new" ELSE "add_document",
                       Ok, None)
    /\ previous = EmptyMap
    /\ document_repository = EmptyMap
    /\ corpus_repository = EmptyMap
    /\ in_flight = EmptyMap

NextVectors ==
    \/ GenerateDocumentVectors
    \/ CosineSimilarity

SpecVectors == InitVectors /\ [][NextVectors]_vars

(***************************************************************************)
(* The application layer: DocumentServiceImpl                              *)
(* (application/document_service.rs) and CorpusServiceImpl                 *)
(* (application/corpus_service.rs) over the in-memory repositories         *)
(* (infrastructure/repository).  A repository hands out and takes clones,  *)
(* so a stored corpus holds its own copy of every document added to it.    *)
(* A call runs from find to save without another call in between.  The     *)
(* RepositoryError of a poisoned lock does not arise: no call panics       *)
(* while it holds a lock.                                                  *)
(***************************************************************************)
CorpusIds == {"corpus1"}

\* Largest number of words in a content.
MaxWords == 1

\* A content is its words in order, one separator between two of them; a word
\* is not empty.
ContentWords == {"This", "test"}

Contents == UNION {[1..n -> ContentWords] : n \in 0..MaxWords}

\* str::to_lowercase, on the words of a content
to_lowercase(word) == IF word = "This" THEN "this" ELSE word

\* SimpleTokenizer::tokenize: lower case, split at the separators; no piece
\* is empty for the filter to drop
RECURSIVE tokenize(_)
tokenize(text) ==
    IF text = <<>> THEN <<>>
    ELSE <<to_lowercase(Head(text))>> \o tokenize(Tail(text))

Titles == {"A title"}

\* Document::new(id, content), every field kept
DocumentNew(id, content) ==
    [id |-> id, content |-> content, title |-> None, term_frequencies |-> EmptyMap,
     stopword_keys |-> {}, term_count |-> 0, metadata |-> EmptyMap]

\* Document::set_title
document_set_title(document, title) == [document EXCEPT !.title = Some(title)]

\* Document::with_title
DocumentWithTitle(id, title, content) == document_set_title(DocumentNew(id, content), title)

\* Document::set_metadata
document_set_metadata(document, key, value) ==
    [document EXCEPT !.metadata = Insert(@, key, value)]

\* for (k, v) in document.metadata().iter() { updated_doc.set_metadata(k, v) }
RECURSIVE copy_metadata(_, _, _)
copy_metadata(updated_doc, metadata_map, keys) ==
    IF keys = {} THEN updated_doc
    ELSE LET k == CHOOSE key \in keys : TRUE
         IN  copy_metadata(document_set_metadata(updated_doc, k, metadata_map[k]),
                           metadata_map, keys \ {k})

\* The Terms analyze_content makes of the tokens: Term::new(token) of each.
terms_of(tokens) == [i \in 1..Len(tokens) |-> TermNew(tokens[i])]

\* Faulty variant of analyze_content: the table is not cleared first.
analyze_content_accumulating(document) ==
    add_terms(document, terms_of(tokenize(document.content)))

\* DocumentServiceImpl::analyze_content
analyze_content(document) ==
    LET tokens == tokenize(document.content)
    IN  add_terms(clear_terms(document), terms_of(tokens))

\* Corpus::new(id, name), as a value
CorpusNew(id, corpus_name) ==
    [id |-> id, name |-> corpus_name, description |-> None, documents |-> EmptyMap,
     document_frequencies |-> EmptyMap, stopwords |-> {}, indexed |-> FALSE,
     metadata |-> EmptyMap]

\* Corpus::add_document on a corpus that does not hold the document's id
add_document_to(corpus, document) ==
    [corpus EXCEPT
        !.document_frequencies =
            IF corpus.indexed THEN count_document(@, document) ELSE @,
        !.documents = Insert(@, document.id, document)]

\* Faulty variant of remove_document_from: the document leaves the corpus
\* and the index keeps counting its terms.
remove_document_from_keeping_index(corpus, document_id) ==
    [corpus EXCEPT !.documents = Delete(@, document_id)]

\* Corpus::remove_document on a corpus that holds the id
remove_document_from(corpus, document_id) ==
    [corpus EXCEPT
        !.document_frequencies =
            IF corpus.indexed
            THEN discount_document(@, corpus.documents[document_id])
            ELSE @,
        !.documents = Delete(@, document_id)]

\* Corpus::build_index on a corpus value
build_index_of(corpus) ==
    [corpus EXCEPT
        !.document_frequencies =
            scan_documents(EmptyMap, corpus.documents, DOMAIN corpus.documents),
        !.indexed = TRUE]

\* What a service call returned.  result: "Ok" or the ApplicationError
\* variant; value: the Document, Corpus, Vec or usize of an Ok.
Served(op, input, result, value) ==
    [op |-> op, result |-> result, doc |-> None, input |-> input, value |-> value]

\* A service call that returns early with an error.
Refused(op, input, error) ==
    /\ last' = Served(op, input, error, None)
    /\ UNCHANGED <<Corpus, Repositories, in_flight, previous>>

\* DocumentServiceImpl::create_document
create_document(id, content) ==
    IF id \in DOMAIN document_repository
    THEN Refused("create_document", <<id, content>>, "InvalidInput")
    ELSE LET document == analyze_content(DocumentNew(id, content))
         IN  /\ document_repository' = Insert(document_repository, id, document)
             /\ last' = Served("create_document", <<id, content>>, Ok, document)
             /\ UNCHANGED <<Corpus, corpus_repository, previous, in_flight>>

\* DocumentServiceImpl::get_document
service_get_document(id) ==
    IF id \in DOMAIN document_repository
    THEN [result |-> Ok, value |-> document_repository[id]]
    ELSE [result |-> "NotFound", value |-> None]

\* Faulty variant of updated_document: the title and the metadata are not
\* carried over.
updated_document_bare(document, new_content) ==
    analyze_content(DocumentNew(document.id, new_content))

\* The document update_content builds: Document::new, the title if there is
\* one, the metadata, then analyze_content.
updated_document(document, new_content) ==
    LET fresh == DocumentNew(document.id, new_content)
        titled == IF document.title # None
                  THEN document_set_title(fresh, CHOOSE title \in document.title : TRUE)
                  ELSE fresh
    IN  analyze_content(copy_metadata(titled, document.metadata, DOMAIN document.metadata))

\* DocumentServiceImpl::update_content
update_content(id, new_content) ==
    IF id \notin DOMAIN document_repository
    THEN Refused("update_content", <<id, new_content>>, "NotFound")
    ELSE LET document == document_repository[id]
             updated_doc == updated_document(document, new_content)
         IN  IF new_content # document.content
             THEN /\ document_repository' = Insert(document_repository, id, updated_doc)
                  /\ last' = Served("update_content", <<id, new_content>>, Ok, updated_doc)
                  /\ UNCHANGED <<Corpus, corpus_repository, previous, in_flight>>
             ELSE /\ last' = Served("update_content", <<id, new_content>>, Ok, document)
                  /\ UNCHANGED <<Corpus, Repositories, in_flight, previous>>

\* DocumentServiceImpl::delete_document
delete_document(id) ==
    IF id \notin DOMAIN document_repository
    THEN Refused("delete_document", <<id>>, "NotFound")
    ELSE /\ document_repository' = Delete(document_repository, id)
         /\ last' = Served("delete_document", <<id>>, Ok, None)
         /\ UNCHANGED <<Corpus, corpus_repository, previous, in_flight>>

\* DocumentServiceImpl::create_document_with_title
create_document_with_title(id, title, content) ==
    IF id \in DOMAIN document_repository
    THEN Refused("create_document_with_title", <<id, title, content>>, "InvalidInput")
    ELSE LET document == analyze_content(DocumentWithTitle(id, title, content))
         IN  /\ document_repository' = Insert(document_repository, id, document)
             /\ last' = Served("create_document_with_title", <<id, title, content>>,
                               Ok, document)
             /\ UNCHANGED <<Corpus, corpus_repository, previous, in_flight>>

\* DocumentServiceImpl::update_title
update_title(id, new_title) ==
    IF id \notin DOMAIN document_repository
    THEN Refused("update_title", <<id, new_title>>, "NotFound")
    ELSE LET document == document_set_title(document_repository[id], new_title)
         IN  /\ document_repository' = Insert(document_repository, id, document)
             /\ last' = Served("update_title", <<id, new_title>>, Ok, document)
             /\ UNCHANGED <<Corpus, corpus_repository, previous, in_flight>>

\* DocumentServiceImpl::process_document
process_document(id) ==
    IF id \notin DOMAIN document_repository
    THEN Refused("process_document", <<id>>, "NotFound")
    ELSE LET document == analyze_content(document_repository[id])
         IN  /\ document_repository' = Insert(document_repository, id, document)
             /\ last' = Served("process_document", <<id>>, Ok, document)
             /\ UNCHANGED <<Corpus, corpus_repository, previous, in_flight>>

\* InMemoryDocumentRepository::save, called by a holder of the repository
\* other than the service
repository_save(document) ==
    /\ document_repository' = Insert(document_repository, document.id, document)
    /\ last' = Served("DocumentRepository::save", <<document>>, Ok, None)
    /\ UNCHANGED <<Corpus, corpus_repository, previous, in_flight>>

\* Faulty variant of create_corpus: the new corpus is saved before the
\* duplicate id is reported.
create_corpus_overwriting(id, corpus_name) ==
    LET corpus == CorpusNew(id, corpus_name)
    IN  /\ corpus_repository' = Insert(corpus_repository, id, corpus)
        /\ last' = Served("create_corpus", <<id, corpus_name>>,
                          IF id \in DOMAIN corpus_repository THEN "InvalidInput" ELSE Ok,
                          IF id \in DOMAIN corpus_repository THEN None ELSE corpus)
        /\ UNCHANGED <<Corpus, document_repository, previous, in_flight>>

\* CorpusServiceImpl::create_corpus
create_corpus(id, corpus_name) ==
    IF id \in DOMAIN corpus_repository
    THEN Refused("create_corpus", <<id, corpus_name>>, "InvalidInput")
    ELSE LET corpus == CorpusNew(id, corpus_name)
         IN  /\ corpus_repository' = Insert(corpus_repository, id, corpus)
             /\ last' = Served("create_corpus", <<id, corpus_name>>, Ok, corpus)
             /\ UNCHANGED <<Corpus, document_repository, previous, in_flight>>

\* CorpusServiceImpl::delete_corpus
delete_corpus(id) ==
    IF id \notin DOMAIN corpus_repository
    THEN Refused("delete_corpus", <<id>>, "NotFound")
    ELSE /\ corpus_repository' = Delete(corpus_repository, id)
         /\ last' = Served("delete_corpus", <<id>>, Ok, None)
         /\ UNCHANGED <<Corpus, document_repository, previous, in_flight>>

\* CorpusServiceImpl::add_document
service_add_document(corpus_id, document_id) ==
    LET op == "CorpusService::add_document"
        input == <<corpus_id, document_id>>
    IN  IF corpus_id \notin DOMAIN corpus_repository THEN Refused(op, input, "NotFound")
        ELSE IF document_id \notin DOMAIN document_repository
             THEN Refused(op, input, "NotFound")
        ELSE IF document_id \in DOMAIN corpus_repository[corpus_id].documents
             THEN Refused(op, input, "InvalidInput")
        ELSE LET added == add_document_to(corpus_repository[corpus_id],
                                          document_repository[document_id])
                 corpus == IF added.indexed THEN build_index_of(added) ELSE added
             IN  /\ corpus_repository' = Insert(corpus_repository, corpus_id, corpus)
                 /\ last' = Served(op, input, Ok, corpus)
                 /\ UNCHANGED <<Corpus, document_repository, previous, in_flight>>

\* CorpusServiceImpl::remove_document
service_remove_document(corpus_id, document_id) ==
    LET op == "CorpusService::remove_document"
        input == <<corpus_id, document_id>>
    IN  IF corpus_id \notin DOMAIN corpus_repository THEN Refused(op, input, "NotFound")
        ELSE IF document_id \notin DOMAIN corpus_repository[corpus_id].documents
             THEN Refused(op, input, "DomainError")
        ELSE LET corpus == remove_document_from(corpus_repository[corpus_id], document_id)
             IN  /\ corpus_repository' = Insert(corpus_repository, corpus_id, corpus)
                 /\ last' = Served(op, input, Ok, corpus)
                 /\ UNCHANGED <<Corpus, document_repository, previous, in_flight>>

\* CorpusServiceImpl::build_index
service_build_index(corpus_id) ==
    LET op == "CorpusService::build_index"
    IN  IF corpus_id \notin DOMAIN corpus_repository
        THEN Refused(op, <<corpus_id>>, "NotFound")
        ELSE LET corpus == build_index_of(corpus_repository[corpus_id])
             IN  /\ corpus_repository' = Insert(corpus_repository, corpus_id, corpus)
                 /\ last' = Served(op, <<corpus_id>>, Ok, corpus)
                 /\ UNCHANGED <<Corpus, document_repository, previous, in_flight>>

\* corpus.document_ids() of the stored corpus, none when it is not stored
stored_document_ids(corpus_id) ==
    IF corpus_id \in DOMAIN corpus_repository
    THEN DOMAIN corpus_repository[corpus_id].documents
    ELSE {}

\* CorpusServiceImpl::get_corpus_documents.  order: the order in which
\* document_ids() yields the ids; the first id get_document does not find
\* ends the call.
get_corpus_documents(corpus_id, order) ==
    IF corpus_id \notin DOMAIN corpus_repository
    THEN [result |-> "NotFound", value |-> <<>>]
    ELSE IF \E i \in DOMAIN order : service_get_document(order[i]).result # Ok
         THEN [result |-> "NotFound", value |-> <<>>]
         ELSE [result |-> Ok,
               value |-> [i \in DOMAIN order |-> service_get_document(order[i]).value]]

\* CorpusServiceImpl::count_corpus_documents
count_corpus_documents(corpus_id) ==
    IF corpus_id \notin DOMAIN corpus_repository
    THEN [result |-> "NotFound", value |-> 0]
    ELSE [result |-> Ok, value |-> Cardinality(DOMAIN corpus_repository[corpus_id].documents)]

\* InMemoryDocumentRepository::new, InMemoryCorpusRepository::new
InitApplication ==
    /\ documents = EmptyMap
    /\ document_frequencies = EmptyMap
    /\ stopwords = {}
    /\ indexed = FALSE
    /\ name = "Test Corpus"
    /\ description = None
    /\ metadata = EmptyMap
    /\ last = Returned("new", Ok, None)
    /\ previous = EmptyMap
    /\ document_repository = EmptyMap
    /\ corpus_repository = EmptyMap
    /\ in_flight = EmptyMap

CreateDocument ==
    \E id \in DocumentIds, content \in Contents : create_document(id, content)

UpdateContent ==
    \E id \in DocumentIds, content \in Contents : update_content(id, content)

DeleteDocument ==
    \E id \in DocumentIds : delete_document(id)

CreateCorpus ==
    \E id \in CorpusIds : create_corpus(id, "Test Corpus")

DeleteCorpus ==
    \E id \in CorpusIds : delete_corpus(id)

ServiceAddDocument ==
    \E corpus_id \in CorpusIds, document_id \in DocumentIds :
        service_add_document(corpus_id, document_id)

ServiceRemoveDocument ==
    \E corpus_id \in CorpusIds, document_id \in DocumentIds :
        service_remove_document(corpus_id, document_id)

ServiceBuildIndex ==
    \E corpus_id \in CorpusIds : service_build_index(corpus_id)

GetCorpusDocuments ==
    \E corpus_id \in CorpusIds :
        \E order \in Orders(stored_document_ids(corpus_id)) :
            LET outcome == get_corpus_documents(corpus_id, order)
            IN  /\ last' = Served("get_corpus_documents", <<corpus_id>>,
                                  outcome.result, outcome.value)
                /\ UNCHANGED <<Corpus, Repositories, in_flight, previous>>

CountCorpusDocuments ==
    \E corpus_id \in CorpusIds :
        LET outcome == count_corpus_documents(corpus_id)
        IN  /\ last' = Served("count_corpus_documents", <<corpus_id>>,
                              outcome.result, outcome.value)
            /\ UNCHANGED <<Corpus, Repositories, in_flight, previous>>

NextApplication ==
    \/ CreateDocument
    \/ UpdateContent
    \/ DeleteDocument
    \/ CreateCorpus
    \/ DeleteCorpus
    \/ ServiceAddDocument
    \/ ServiceRemoveDocument
    \/ ServiceBuildIndex
    \/ GetCorpusDocuments
    \/ CountCorpusDocuments

SpecApplication == InitApplication /\ [][NextApplication]_vars

(***************************************************************************)
(* The document service specification: DocumentServiceImpl over a document *)
(* repository that another holder of the repository saves to as well.  A   *)
(* document saved that way is any Document the public API builds: it may   *)
(* carry metadata, and its table need not be the tokens of its content.    *)
(* No call reads or writes a document other than the one it names, so one  *)
(* id is followed.                                                         *)
(***************************************************************************)
ServedIds == {"doc1"}

\* The term sequences a saved document was given through add_terms: none,
\* one term, one term twice.
GivenTerms == {<<>>, <<TermNew("this")>>, <<TermNew("test"), TermNew("test")>>}

\* The metadata of a saved document: none, or one field set by set_metadata.
GivenMetadata ==
    {EmptyMap} \cup {Insert(EmptyMap, key, value) :
                        key \in MetadataKeys, value \in MetadataValues}

\* The documents saved to the repository directly.
SavedDocuments ==
    {add_terms([DocumentNew(id, content) EXCEPT !.title = title, !.metadata = fields],
               terms) :
        id \in ServedIds, content \in Contents,
        title \in {None} \cup {Some(t) : t \in Titles},
        fields \in GivenMetadata, terms \in GivenTerms}

ServedCreateDocument ==
    \E id \in ServedIds, content \in Contents : create_document(id, content)

ServedCreateDocumentWithTitle ==
    \E id \in ServedIds, title \in Titles, content \in Contents :
        create_document_with_title(id, title, content)

ServedUpdateContent ==
    \E id \in ServedIds, content \in Contents : update_content(id, content)

ServedUpdateTitle ==
    \E id \in ServedIds, new_title \in Titles : update_title(id, new_title)

ServedProcessDocument ==
    \E id \in ServedIds : process_document(id)

ServedDeleteDocument ==
    \E id \in ServedIds : delete_document(id)

RepositorySave ==
    \E document \in SavedDocuments : repository_save(document)

NextDocumentService ==
    \/ ServedCreateDocument
    \/ ServedCreateDocumentWithTitle
    \/ ServedUpdateContent
    \/ ServedUpdateTitle
    \/ ServedProcessDocument
    \/ ServedDeleteDocument
    \/ RepositorySave

SpecDocumentService == InitApplication /\ [][NextDocumentService]_vars

----------------------------------------------------------------------------
(* Concurrent callers of CorpusService.  The corpus repository is an       *)
(* Arc<RwLock<HashMap>>: find clones the stored corpus under the read      *)
(* lock, save inserts a clone under the write lock, and a service call     *)
(* holds no lock between its find and its save.  A step of a call is one   *)
(* access to a repository; what the call does to its local `corpus` after  *)
(* an access is seen by no other caller and is part of that step.  Each    *)
(* caller makes one call; a reader calls get_corpus at any time.           *)

Callers == {"caller1", "caller2"}

\* The mutations of CorpusService and what they are given.
CorpusCalls ==
    {[op |-> op, arg |-> id] : op \in {"add_document", "remove_document"}, id \in DocumentIds}
    \cup {[op |-> op, arg |-> word] : op \in {"add_stopword", "remove_stopword"}, word \in Words}
    \cup {[op |-> "build_index", arg |-> ""],
          [op |-> "update_name", arg |-> "Renamed"],
          [op |-> "update_description", arg |-> "A description"]}

\* A call under way.  stage: "found" after corpus_repository.find, "ready"
\* when the local corpus is what the call will save, "returned" at the end;
\* corpus: the local `corpus`; result: "Pending" until the call returns.
Call(op, corpus_id, arg, stage, corpus, result) ==
    [op |-> op, corpus_id |-> corpus_id, arg |-> arg, stage |-> stage,
     corpus |-> corpus, result |-> result]

\* Corpus::add_stopword on a corpus value
add_stopword_to(corpus, word) == [corpus EXCEPT !.stopwords = @ \cup {word}]

\* Corpus::remove_stopword on a corpus value
remove_stopword_from(corpus, word) == [corpus EXCEPT !.stopwords = @ \ {word}]

\* Corpus::set_name on a corpus value
set_name_of(corpus, new_name) == [corpus EXCEPT !.name = new_name]

\* Corpus::set_description on a corpus value
set_description_of(corpus, new_description) ==
    [corpus EXCEPT !.description = Some(new_description)]

\* What a mutation other than add_document does to the corpus it found,
\* between its find and its save: the changed corpus, or the error of
\* Corpus::remove_document.
changed_corpus(op, corpus, arg) ==
    IF op = "remove_document"
    THEN IF arg \in DOMAIN corpus.documents
         THEN Success(remove_document_from(corpus, arg))
         ELSE Err("DomainError")
    ELSE IF op = "add_stopword" THEN Success(add_stopword_to(corpus, to_lowercase(arg)))
    ELSE IF op = "remove_stopword"
         THEN Success(remove_stopword_from(corpus, to_lowercase(arg)))
    ELSE IF op = "build_index" THEN Success(build_index_of(corpus))
    ELSE IF op = "update_name" THEN Success(set_name_of(corpus, arg))
    ELSE Success(set_description_of(corpus, arg))

\* The first step of every mutation: corpus_repository.find, NotFound when
\* the corpus is not stored, then the change of the local corpus.
\* add_document goes on to find the document.
find_corpus(caller, op, corpus_id, arg) ==
    /\ caller \notin DOMAIN in_flight
    /\ in_flight' = Insert(in_flight, caller,
           IF corpus_id \notin DOMAIN corpus_repository
           THEN Call(op, corpus_id, arg, "returned", None, "NotFound")
           ELSE LET corpus == corpus_repository[corpus_id]
                IN  IF op = "add_document"
                    THEN Call(op, corpus_id, arg, "found", corpus, "Pending")
                    ELSE LET outcome == changed_corpus(op, corpus, arg)
                         IN  IF outcome.result = Ok
                             THEN Call(op, corpus_id, arg, "ready", outcome.value, "Pending")
                             ELSE Call(op, corpus_id, arg, "returned", corpus,
                                       outcome.result))
    /\ UNCHANGED <<Corpus, Repositories, last, previous>>

\* The second step of add_document: document_repository.find, NotFound when
\* the document is not stored, InvalidInput when the local corpus holds its
\* id, else corpus.add_document and, on an indexed corpus, build_index.
find_document(caller) ==
    /\ caller \in DOMAIN in_flight
    /\ in_flight[caller].stage = "found"
    /\ LET call == in_flight[caller]
           added == add_document_to(call.corpus, document_repository[call.arg])
       IN  in_flight' = [in_flight EXCEPT ![caller] =
               IF call.arg \notin DOMAIN document_repository
               THEN [call EXCEPT !.stage = "returned", !.result = "NotFound"]
               ELSE IF call.arg \in DOMAIN call.corpus.documents
                    THEN [call EXCEPT !.stage = "returned", !.result = "InvalidInput"]
               ELSE [call EXCEPT !.stage = "ready",
                                 !.corpus = IF added.indexed THEN build_index_of(added)
                                            ELSE added]]
    /\ UNCHANGED <<Corpus, Repositories, last, previous>>

\* The last step of every mutation: corpus_repository.save of the local
\* corpus, which the call returns.
save_corpus(caller) ==
    /\ caller \in DOMAIN in_flight
    /\ in_flight[caller].stage = "ready"
    /\ corpus_repository' = Insert(corpus_repository, in_flight[caller].corpus_id,
                                   in_flight[caller].corpus)
    /\ in_flight' = [in_flight EXCEPT ![caller].stage = "returned", ![caller].result = Ok]
    /\ UNCHANGED <<Corpus, document_repository, last, previous>>

\* CorpusServiceImpl::get_corpus: one find
get_corpus(corpus_id) ==
    /\ last' = IF corpus_id \in DOMAIN corpus_repository
               THEN Served("get_corpus", <<corpus_id>>, Ok, corpus_repository[corpus_id])
               ELSE Served("get_corpus", <<corpus_id>>, "NotFound", None)
    /\ UNCHANGED <<Corpus, Repositories, in_flight, previous>>

\* The corpus the service stores after create_corpus, add_document for each
\* of ids and, when built, build_index.
stored_corpus(corpus_id, ids, built) ==
    LET added == [CorpusNew(corpus_id, "Test Corpus") EXCEPT
                     !.documents = [id \in ids |-> document_repository[id]]]
    IN  IF built THEN build_index_of(added) ELSE added

\* Every document id has a document made by create_document, and the
\* corpus is stored with some of them, indexed or not; no call is under way.
InitConcurrent ==
    /\ documents = EmptyMap
    /\ document_frequencies = EmptyMap
    /\ stopwords = {}
    /\ indexed = FALSE
    /\ name = "Test Corpus"
    /\ description = None
    /\ metadata = EmptyMap
    /\ last = Returned("new", Ok, None)
    /\ previous = EmptyMap
    /\ \E content \in [DocumentIds -> Contents] :
           document_repository =
               [id \in DocumentIds |-> analyze_content(DocumentNew(id, content[id]))]
    /\ \E corpus_id \in CorpusIds, ids \in SUBSET DocumentIds, built \in BOOLEAN :
           corpus_repository =
               Insert(EmptyMap, corpus_id, stored_corpus(corpus_id, ids, built))
    /\ in_flight = EmptyMap

FindCorpus ==
    \E caller \in Callers, call \in CorpusCalls, corpus_id \in CorpusIds :
        find_corpus(caller, call.op, corpus_id, call.arg)

FindDocument == \E caller \in Callers : find_document(caller)

SaveCorpus == \E caller \in Callers : save_corpus(caller)

GetCorpus == \E corpus_id \in CorpusIds : get_corpus(corpus_id)

NextConcurrent ==
    \/ FindCorpus
    \/ FindDocument
    \/ SaveCorpus
    \/ GetCorpus

SpecConcurrent == InitConcurrent /\ [][NextConcurrent]_vars

(***************************************************************************)
(* Properties of the document-frequency index.                             *)
(***************************************************************************)
\* The member documents holding term with a positive count.
PositiveHolders(term) ==
    {id \in DOMAIN documents : term_frequency(documents[id], term) > 0}

\* The member documents whose table has term as a key.
Holders(term) ==
    {id \in DOMAIN documents : term \in DOMAIN documents[id].term_frequencies}

\* C1: in every state with indexed = TRUE, the document frequency of every
\* term is the number of member documents whose table holds the term with a
\* positive count.  Two things break it: the index counts the keys of a
\* table, so a key held with count 0 is counted; and get_document_mut changes
\* a member's table and leaves the index as it was.
C1_IndexCountsPositiveHolders ==
    indexed =>
        \A term \in TermTexts : document_frequency(term) = Cardinality(PositiveHolders(term))

\* C2: once build_index has been called, after any sequence of add_document
\* and remove_document calls the table is the one build_index would compute
\* from the current documents.
C2_IncrementalEqualsRebuild ==
    indexed =>
        document_frequencies = scan_documents(EmptyMap, documents, DOMAIN documents)

\* C2 witness: an indexed corpus after a successful remove_document that left
\* one document behind, sharing a term with the removed one.
C2_Witness ==
    /\ indexed
    /\ last.op = "remove_document" /\ last.result = Ok
    /\ document_count = 1
    /\ \E removed \in last.doc, term \in TermTexts :
           /\ term \in unique_terms(removed)
           /\ frequency_in(previous, term) = 2
           /\ document_frequency(term) = 1

\* C3: right after build_index, the document frequency of every term is the
\* number of documents whose table has the term as a key (0 when none has).
C3_BuildIndexCountsHolders ==
    last.op = "build_index" =>
        \A term \in TermTexts : document_frequency(term) = Cardinality(Holders(term))

\* C3 witness: build_index has run on two documents, one term in both with a
\* count above 1 in one of them, another term in neither.
C3_Witness ==
    /\ last.op = "build_index"
    /\ document_count = 2
    /\ \E term \in TermTexts :
           /\ document_frequency(term) = 2
           /\ \E id \in DOMAIN documents : term_frequency(documents[id], term) = 2
    /\ \E term \in TermTexts : document_frequency(term) = 0

\* C4: a successful add_document on an indexed corpus raises the document
\* frequency of each key of the new document's table by exactly 1, whatever
\* the count stored under the key, and leaves every other term's unchanged.
C4_AddRaisesEachDistinctTermByOne ==
    [][\A document \in InputDocuments :
          (indexed /\ ~contains_document(document.id) /\ add_document(document)) =>
              \A term \in TermTexts :
                  frequency_in(document_frequencies', term) =
                      document_frequency(term)
                          + (IF term \in unique_terms(document) THEN 1 ELSE 0)]_vars

\* C4 witness: a document holding a term twice was added to an indexed corpus
\* that already counted the term once.
C4_Witness ==
    /\ indexed
    /\ last.op = "add_document" /\ last.result = Ok
    /\ \E term \in TermTexts :
           /\ frequency_in(previous, term) = 1
           /\ document_frequency(term) = 2
           /\ \E id \in DOMAIN documents : term_frequency(documents[id], term) = 2

\* C5: a successful remove_document on an indexed corpus lowers by exactly 1
\* the document frequency of each key of the removed document's table,
\* leaves the other terms' unchanged, and leaves no entry with value 0.
\* It fails once a member was edited in place (C1): a key the index never
\* counted has nothing to lower.
C5_RemoveLowersEachDistinctTermByOne ==
    [][\A document_id \in DocumentIds :
          (indexed /\ contains_document(document_id) /\ remove_document(document_id)) =>
              /\ \A term \in TermTexts :
                     frequency_in(document_frequencies', term) =
                         document_frequency(term)
                             - (IF term \in unique_terms(documents[document_id])
                                THEN 1 ELSE 0)
              /\ \A term \in DOMAIN document_frequencies' :
                     document_frequencies'[term] # 0]_vars

\* C6: on an indexed corpus, remove_document(id) followed by add_document of
\* the document it returned restores the table that held before the removal.
\* It fails once a member was edited in place (C1).
C6_RemoveThenAddRestoresIndex ==
    [][\A document \in last.doc :
          (/\ indexed
           /\ last.op = "remove_document" /\ last.result = Ok
           /\ add_document(document)) =>
              document_frequencies' = previous]_vars

\* C7: build_index can be called in every state, leaves indexed = TRUE, and
\* a second call right after the first changes neither the table, the
\* documents nor the flag.
C7_BuildIndexIdempotentTotal ==
    [][/\ ENABLED build_index
       /\ build_index => indexed'
       /\ (last.op = "build_index" /\ build_index) =>
              UNCHANGED <<document_frequencies, documents, indexed>>]_vars

\* C7 witness: build_index ran on an indexed corpus with a non-empty table and
\* left the table as it was.
C7_Witness ==
    /\ last.op = "build_index"
    /\ indexed
    /\ document_frequencies # EmptyMap
    /\ previous = document_frequencies

\* C8: a new corpus is not indexed, and no step of the corpus (documents
\* added and removed, the index rebuilt, stopwords, name, description and
\* metadata edited) takes indexed from TRUE back to FALSE.
C8_IndexedIsStable ==
    /\ ~is_indexed
    /\ [][is_indexed => is_indexed']_vars

\* C8 witness: an indexed corpus whose name, description, stopwords and
\* metadata were edited and from which a document was then removed.
C8_Witness ==
    /\ is_indexed
    /\ last.op = "remove_document" /\ last.result = Ok
    /\ name = "Renamed"
    /\ description # None
    /\ stopwords # {}
    /\ metadata # EmptyMap

\* What add_document(document) does when it fails with the error named
\* error, and when it succeeds.
AddDocumentContract(document, error) ==
    IF contains_document(document.id)
    THEN last'.result = error
    ELSE /\ last'.result = Ok
         /\ document.id \in DOMAIN documents'
         /\ documents'[document.id] = document
         /\ Cardinality(DOMAIN documents') = document_count + 1

C10_RemoveNotFoundOrReturns ==
    [][\A document_id \in DocumentIds :
          remove_document(document_id) =>
              IF ~contains_document(document_id)
              THEN last'.result = "NotFound" /\ last'.doc = None
              ELSE /\ last'.result = Ok
                   /\ last'.doc = Some(documents[document_id])
                   /\ document_id \notin DOMAIN documents'
                   /\ Cardinality(DOMAIN documents') = document_count - 1]_vars

\* C10 witness: remove_document returned a document with terms and one
\* document is left.
C10_Witness ==
    /\ last.op = "remove_document" /\ last.result = Ok
    /\ document_count = 1
    /\ \E removed \in last.doc : unique_terms(removed) # {}

\* C11: an add_document or remove_document call that returns an error leaves
\* the documents, the document frequencies and the indexed flag as they were.
C11_FailedCallChangesNothing ==
    [][(last'.op \in {"add_document", "remove_document"} /\ last'.result # Ok) =>
           UNCHANGED <<documents, document_frequencies, indexed>>]_vars

\* C11 witness: add_document was refused on an indexed corpus whose index
\* holds a term; the table is the one the call found.
C11_Witness ==
    /\ last.op = "add_document" /\ last.result = "InvalidOperation"
    /\ indexed
    /\ document_frequencies # EmptyMap
    /\ document_frequencies = previous

\* C12: as long as build_index has not been called, document_frequencies is
\* empty and document_frequency(T) is 0 for every term, whatever documents
\* were added and removed.
C12_UnindexedTableStaysEmpty ==
    ~indexed =>
        /\ document_frequencies = EmptyMap
        /\ \A term \in TermTexts : document_frequency(term) = 0

\* C12 witness: a corpus never indexed, after a successful remove_document,
\* still holding a document with a term.
C12_Witness ==
    /\ ~indexed
    /\ last.op = "remove_document" /\ last.result = Ok
    /\ \E document_id \in DOMAIN documents :
           unique_terms(documents[document_id]) # {}

(***************************************************************************)
(* Properties of the engine.                                               *)
(***************************************************************************)
\* C13: on a corpus that is not indexed, every engine operation returns
\* CorpusNotIndexed, whatever its options and arguments.
C13_UnindexedRejectsEveryCall ==
    (~is_indexed /\ last.op \in EngineOps) => last.result = "CorpusNotIndexed"

\* C13 witness: calculate_term_tfidf was called with filter_stopwords on and
\* a stopword term on a corpus of two documents that is not indexed.
C13_Witness ==
    /\ ~is_indexed
    /\ document_count = 2
    /\ last.op = "calculate_term_tfidf"
    /\ last.options.filter_stopwords
    /\ last.input[1].is_stopword
    /\ last.result = "CorpusNotIndexed"

\* C14: on an indexed corpus, calculate_term_tfidf with a term flagged
\* is_stopword fails with InvalidCalculation when filter_stopwords is on, and
\* the same call with filter_stopwords off returns a score for the term.
C14_StopwordTermIsInvalidCalculation ==
    (/\ is_indexed
     /\ last.op = "calculate_term_tfidf"
     /\ last.input[1].is_stopword) =>
        LET unfiltered == calculate_term_tfidf(
                              [last.options EXCEPT !.filter_stopwords = FALSE],
                              last.input[1], last.input[2])
        IN  /\ last.options.filter_stopwords =>
                   last.result = "InvalidCalculation" /\ last.result # "CorpusNotIndexed"
            /\ ~last.options.filter_stopwords => last.result = Ok
            /\ unfiltered.result = Ok
            /\ unfiltered.value.term = last.input[1]

\* C14 witness: the call was refused for a stopword the document holds, on an
\* indexed corpus that holds the term too.
C14_Witness ==
    /\ is_indexed
    /\ last.op = "calculate_term_tfidf"
    /\ last.options.filter_stopwords
    /\ last.input[1].is_stopword
    /\ term_frequency(last.input[2], last.input[1].text) > 0
    /\ document_frequency(last.input[1].text) > 0
    /\ last.result = "InvalidCalculation"

\* the terms of the score entries of a list of scored documents
RECURSIVE scored_terms(_)
scored_terms(results) ==
    IF results = <<>> THEN {}
    ELSE {Head(results).term_scores[i].term : i \in 1..Len(Head(results).term_scores)}
             \cup scored_terms(Tail(results))

\* C15: calculate_document_tfidf and search return no error but
\* CorpusNotIndexed; on an indexed corpus they return Ok, and with
\* filter_stopwords on no score entry is for a term flagged is_stopword.
C15_BatchCallsAbsorbStopwords ==
    /\ last.op \in {"calculate_document_tfidf", "search"} =>
           last.result \in {Ok, "CorpusNotIndexed"}
    /\ (is_indexed /\ last.op \in {"calculate_document_tfidf", "search"}) =>
           last.result = Ok
    /\ (is_indexed /\ last.op = "calculate_document_tfidf"
                   /\ last.options.filter_stopwords) =>
           \A i \in 1..Len(last.value) : ~last.value[i].term.is_stopword
    /\ (is_indexed /\ last.op = "search" /\ last.options.filter_stopwords) =>
           \A term \in scored_terms(last.value) : ~term.is_stopword

\* C15 witness: calculate_document_tfidf with filter_stopwords on returned an
\* empty list for a document of two terms, both flagged is_stopword.
C15_Witness ==
    /\ is_indexed
    /\ last.op = "calculate_document_tfidf"
    /\ last.options.filter_stopwords
    /\ last.input.stopword_keys = TermTexts
    /\ last.result = Ok
    /\ last.value = <<>>

\* the aggregate score search computes for a member document
aggregate(options, query_terms, document_id) ==
    sum_of_scores(query_scores(options, query_terms, documents[document_id]).value)

\* the ids of the documents of a result list
result_ids(results) == {results[i].document.id : i \in 1..Len(results)}

\* C16: search returns exactly the documents of the corpus whose aggregate
\* score is not 0.0, each once: a document is left out if and only if its
\* aggregate is exactly 0.0, whatever the sign of the aggregate.
C16_SearchExcludesExactlyZero ==
    (is_indexed /\ last.op = "search") =>
        /\ result_ids(last.value) =
               {document_id \in DOMAIN documents :
                   ~F64Eq(aggregate(last.options, last.input, document_id), Zero)}
        /\ Len(last.value) = Cardinality(result_ids(last.value))

\* The query terms search scores: all of them, or with filter_stopwords on
\* those not flagged is_stopword.
scored_query_terms(options, query_terms) ==
    {query_terms[i] : i \in {j \in 1..Len(query_terms) :
                                ~(options.filter_stopwords /\ query_terms[j].is_stopword)}}

\* document_frequency(term) + 1 = document_count
InAllButOne(term) == document_frequency(term.text) + 1 = document_count

\* C17: with smoothing on and the built-in weighting, a term whose document
\* frequency + 1 is the document count has IDF 0.0 and score 0.0 in every
\* document; a search whose scored query terms are all such terms returns
\* the empty list, and the same search with smoothing off returns every
\* document that holds a scored query term whose document frequency is below
\* the document count.
C17_SmoothedZeroIdf ==
    /\ (/\ is_indexed
        /\ last.op = "calculate_term_tfidf" /\ last.result = Ok
        /\ last.options.apply_smoothing
        /\ InAllButOne(last.input[1])) =>
           F64Eq(last.value.idf, Zero) /\ F64Eq(last.value.score, Zero)
    /\ (/\ is_indexed
        /\ last.op = "search"
        /\ last.options.apply_smoothing
        /\ \A term \in scored_query_terms(last.options, last.input) : InAllButOne(term)) =>
           /\ last.value = <<>>
           /\ LET unsmoothed == search([last.options EXCEPT !.apply_smoothing = FALSE],
                                       last.input, last.order)
              IN  \A document_id \in DOMAIN documents :
                      (\E term \in scored_query_terms(last.options, last.input) :
                           /\ term_frequency(documents[document_id], term.text) > 0
                           /\ document_frequency(term.text) < document_count) =>
                          document_id \in result_ids(unsmoothed.value)

\* C18: on an indexed corpus with no document, inverse_document_frequency is
\* 0.0 for every term, and so is the IDF calculate_term_tfidf returns with
\* smoothing on and the built-in weighting.
C18_EmptyCorpusIdfIsZero ==
    (is_indexed /\ document_count = 0) =>
        /\ \A term \in Terms : F64Eq(inverse_document_frequency(term), Zero)
        /\ (/\ last.op = "calculate_term_tfidf" /\ last.result = Ok
            /\ last.options.apply_smoothing) =>
               F64Eq(last.value.idf, Zero)

\* no entry of the list is followed by an entry of greater score
Descending(entries) ==
    \A i \in 1..Len(entries), j \in 1..Len(entries) :
        i < j => ~F64Gt(entries[j].score, entries[i].score)

\* C19: every list search returns is in non-increasing order of aggregate
\* score, and every list calculate_document_tfidf returns is in
\* non-increasing order of score, normalized or not.
C19_ResultsSortedDescending ==
    (last.op \in {"search", "calculate_document_tfidf"} /\ last.result = Ok) =>
        Descending(last.value)

\* C19 witness: search returned two documents of different scores, and the
\* corpus had yielded the one of lower score first.
C19_Witness ==
    /\ last.op = "search" /\ last.result = Ok
    /\ Len(last.value) = 2
    /\ F64Gt(last.value[1].score, last.value[2].score)
    /\ last.order[1] = last.value[2].document.id

\* C20: the result of search and of calculate_document_tfidf, the order of
\* its entries of equal score included, is the same for every order in which
\* the HashMap yields the documents or the terms.
C20_TieOrderIsDeterministic ==
    /\ (last.op = "search" /\ last.result = Ok) =>
           \A ids \in Orders(DOMAIN documents) :
               search(last.options, last.input, ids).value = last.value
    /\ (last.op = "calculate_document_tfidf" /\ last.result = Ok) =>
           \A keys \in Orders(DOMAIN last.input.term_frequencies) :
               calculate_document_tfidf(last.options, last.input, keys).value = last.value

(***************************************************************************)
(* Properties of the document vectors.                                     *)
(***************************************************************************)
\* The vectors the last call built from the corpus.
vectors_of_last == generate_document_vectors(last.options).value

\* The member has a key, and every key of it is flagged is_stopword.
OnlyStopwords(document_id) ==
    /\ documents[document_id].term_frequencies # EmptyMap
    /\ documents[document_id].stopword_keys = DOMAIN documents[document_id].term_frequencies

\* C21: on an indexed corpus generate_document_vectors returns one vector for
\* each member document and for nothing else, and cosine_similarity(id_a,
\* id_b) fails with DocumentNotFound exactly when id_a or id_b is not the id
\* of a member; in particular it returns Ok for a member with no term or
\* with stopword terms only.
C21_NotFoundIffNotMember ==
    indexed =>
        /\ last.op = "generate_document_vectors" =>
               last.result = Ok /\ DOMAIN last.value = DOMAIN documents
        /\ last.op = "cosine_similarity" =>
               IF \A i \in 1..2 : last.input[i] \in DOMAIN documents
               THEN last.result = Ok
               ELSE last.result = "DocumentNotFound"

\* cosine_similarity returned Ok for a member whose terms are all stopwords,
\* with filter_stopwords on, and for a member with no term.
C21_Witness ==
    /\ indexed
    /\ last.op = "cosine_similarity"
    /\ last.result = Ok
    /\ last.options.filter_stopwords
    /\ last.input[1] # last.input[2]
    /\ OnlyStopwords(last.input[1])
    /\ documents[last.input[2]].term_frequencies = EmptyMap

\* Every component of the vector is 0.0 (the empty vector included).
ZeroNorm(vector) == \A term \in DOMAIN vector : F64Eq(vector[term], Zero)

\* C22: cosine_similarity returns exactly 0.0 when one of the two vectors has
\* norm zero, the similarity of such a document with itself included.
C22_ZeroNormGivesZero ==
    (/\ last.op = "cosine_similarity"
     /\ last.result = Ok
     /\ \E i \in 1..2 : ZeroNorm(vectors_of_last[last.input[i]]))
        => last.value = Zero

\* A document whose vector is not empty and holds zero scores only was
\* compared with itself.
C22_Witness ==
    /\ last.op = "cosine_similarity"
    /\ last.result = Ok
    /\ vectors_of_last[last.input[1]] # EmptyMap
    /\ ZeroNorm(vectors_of_last[last.input[1]])
    /\ last.input[2] = last.input[1]

(***************************************************************************)
(* Frame of the engine.                                                    *)
(***************************************************************************)
\* C23: no engine operation changes the corpus or a document of it: the
\* documents (each with its term table and term_count), the index table and
\* the indexed flag are after the call what they were before it, whether
\* the call returned Ok or an error.
C23_EngineLeavesCorpusUnchanged ==
    [][last'.op \in EngineOps =>
          /\ documents' = documents
          /\ document_frequencies' = document_frequencies
          /\ indexed' = indexed]_vars

\* An engine call succeeded on a corpus that holds a document with a term.
C23_Witness ==
    /\ last.op \in EngineOps
    /\ last.result = Ok
    /\ \E id \in DOMAIN documents : documents[id].term_count > 0

(***************************************************************************)
(* Properties of Document and Term.                                        *)
(***************************************************************************)
\* C24: in every document term_count is the sum of the values of
\* term_frequencies, after any sequence of add_term, add_terms, clear_terms
\* and edits through term_frequencies_mut.
C24_TermCountIsSumOfFrequencies ==
    \A id \in DOMAIN documents :
        documents[id].term_count =
            SumOf(documents[id].term_frequencies, DOMAIN documents[id].term_frequencies)

\* The number of terms of the sequence whose text is text.
RECURSIVE occurrences(_, _)
occurrences(terms, text) ==
    IF terms = <<>> THEN 0
    ELSE (IF Head(terms).text = text THEN 1 ELSE 0) + occurrences(Tail(terms), text)

\* C25: two Terms are one key of a document's table and of the index exactly
\* when their text is equal, whatever their stem and stopword flag: the keys
\* of the table after add_terms are texts, the count of a text rises by the
\* number of terms added with that text (Term::new(x), Term::stopword(x) and
\* Term::with_stem(x, s) added to an empty document give the one entry x of
\* frequency 3), terms of another text leave it alone, and build_index
\* counts the document once for x.
C25_TermIdentityIsText ==
    /\ [][last'.op = "add_terms" =>
              /\ DOMAIN documents'[last'.id].term_frequencies \subseteq TermTexts
              /\ \A text \in TermTexts :
                     term_frequency(documents'[last'.id], text) =
                         term_frequency(documents[last'.id], text)
                             + occurrences(last'.input, text)]_vars
    /\ [](last.op = "build_index" =>
              /\ DOMAIN document_frequencies \subseteq TermTexts
              /\ \A text \in TermTexts :
                     document_frequency(text) = Cardinality(Holders(text)))

\* Term::new, Term::stopword and Term::with_stem of one text were added to
\* an empty document: the table has the one entry, of frequency 3.
C25_Witness ==
    /\ last.op = "add_terms"
    /\ last.input = <<TermNew("this"), TermStopword("this"), TermWithStem("this", "thi")>>
    /\ documents[last.id].term_frequencies = [text \in {"this"} |-> 3]
    /\ documents[last.id].term_count = 3

(***************************************************************************)
(* Properties of the weighting.                                            *)
(***************************************************************************)
\* 1 + ln(raw_count) if raw_count > 0, else 0.0
log_tf(raw_count) ==
    IF raw_count > 0 THEN F64Add(One, Finite(LnTable[raw_count])) ELSE Zero

\* C26: in calculate_term_tfidf a tf_weighting override, when present, gives
\* the TF whatever use_log_tf is, and is called with the raw count of the
\* term in the document and the document's term_count; an idf_weighting
\* override, when present, gives the IDF whatever apply_smoothing is, and is
\* called with document_frequency(term) and document_count; the built-in
\* formulas are used only when the override is absent.
C26_OverridesTakePriority ==
    (last.op = "calculate_term_tfidf" /\ last.result = Ok) =>
        LET options == last.options
            term == last.input[1]
            document == last.input[2]
            raw_count == term_frequency(document, term.text)
            doc_freq == document_frequency(term.text)
        IN  /\ last.value.tf =
                   IF options.tf_weighting = Some("count_and_total")
                   THEN count_and_total(raw_count, document.term_count)
                   ELSE IF options.use_log_tf THEN log_tf(raw_count)
                   ELSE normalized_term_frequency(document, term)
            /\ last.value.idf =
                   IF options.idf_weighting = Some("freq_and_docs")
                   THEN freq_and_docs(doc_freq, document_count)
                   ELSE IF options.apply_smoothing
                        THEN LnRatio(document_count, doc_freq + 1)
                   ELSE inverse_document_frequency(term)

\* Both overrides were present with use_log_tf and apply_smoothing on, for a
\* term the document holds and the index counts, in a document with other
\* terms, so that the arguments of each override differ.
C26_Witness ==
    /\ last.op = "calculate_term_tfidf"
    /\ last.result = Ok
    /\ last.options.tf_weighting # None
    /\ last.options.idf_weighting # None
    /\ last.options.use_log_tf
    /\ last.options.apply_smoothing
    /\ term_frequency(last.input[2], last.input[1].text) = 1
    /\ last.input[2].term_count = 2
    /\ document_frequency(last.input[1].text) = 1
    /\ document_count = 2

(***************************************************************************)
(* Properties of calculate_document_tfidf.                                 *)
(***************************************************************************)
\* The texts of the terms of a list of scores.
score_texts(scores) == {scores[i].term.text : i \in 1..Len(scores)}

\* C27: on an indexed corpus calculate_document_tfidf returns one score for
\* each distinct term of the document that is not flagged is_stopword when
\* filter_stopwords is on, and one for each distinct term when it is off; a
\* term whose score is 0 has its entry as any other.
C27_OneScorePerUnfilteredTerm ==
    (last.op = "calculate_document_tfidf" /\ indexed) =>
        LET document == last.input
            expected == IF last.options.filter_stopwords
                        THEN DOMAIN document.term_frequencies \ document.stopword_keys
                        ELSE DOMAIN document.term_frequencies
        IN  /\ last.result = Ok
            /\ Len(last.value) = Cardinality(expected)
            /\ score_texts(last.value) = expected

\* With filter_stopwords on, a document with a flagged and an unflagged term
\* got the one entry of the unflagged term, whose score is 0.0.
C27_Witness ==
    /\ last.op = "calculate_document_tfidf"
    /\ last.result = Ok
    /\ last.options.filter_stopwords
    /\ last.input.stopword_keys = {"this"}
    /\ DOMAIN last.input.term_frequencies = {"this", "test"}
    /\ Len(last.value) = 1
    /\ last.value[1].term.text = "test"
    /\ F64Eq(last.value[1].score, Zero)

\* The scores the last call of calculate_document_tfidf had before
\* normalize_scores: the same call with normalize off.
raw_scores ==
    calculate_document_tfidf([last.options EXCEPT !.normalize = FALSE],
                             last.input, last.order).value

\* C28: with normalize on, the scores calculate_document_tfidf returns have
\* Euclidean norm 1.0 (within epsilon) when a raw score is not zero, and are
\* the raw scores, all 0.0, when every raw score is zero.
C28_NormalizedScoresHaveUnitNorm ==
    (/\ last.op = "calculate_document_tfidf"
     /\ last.result = Ok
     /\ last.options.normalize) =>
        IF \E i \in 1..Len(raw_scores) : ~F64Eq(raw_scores[i].score, Zero)
        THEN Near(F64Sqrt(sum_of_squares(last.value)), One)
        ELSE /\ last.value = raw_scores
             /\ \A i \in 1..Len(last.value) : F64Eq(last.value[i].score, Zero)

(***************************************************************************)
(* Self-similarity.                                                        *)
(***************************************************************************)
\* cosine_similarity(a, a) was called for a member a that has a term of
\* non-zero score that is not flagged is_stopword.
SelfSimilarityOfScoredDocument ==
    /\ last.op = "cosine_similarity"
    /\ last.result = Ok
    /\ last.input[1] = last.input[2]
    /\ \E text \in DOMAIN vectors_of_last[last.input[1]] :
           /\ text \notin documents[last.input[1]].stopword_keys
           /\ ~F64Eq(vectors_of_last[last.input[1]][text], Zero)

\* C29, as stated: the similarity of such a document with itself is 1.0.
C29_SelfSimilarityIsOne ==
    SelfSimilarityOfScoredDocument => F64Eq(last.value, One)

\* C29, amended: the similarity of such a document with itself is 1.0
\* within the rounding error of the arithmetic.
C29_SelfSimilarityIsNearOne ==
    SelfSimilarityOfScoredDocument => Near(last.value, One)

\* The document has two terms of non-zero score, and the corpus another
\* document.
C29_Witness ==
    /\ SelfSimilarityOfScoredDocument
    /\ document_count = 2
    /\ \E text, other \in DOMAIN vectors_of_last[last.input[1]] :
           /\ text # other
           /\ ~F64Eq(vectors_of_last[last.input[1]][text], Zero)
           /\ ~F64Eq(vectors_of_last[last.input[1]][other], Zero)

(***************************************************************************)
(* Properties of the application layer.                                    *)
(***************************************************************************)
\* C30: after any sequence of DocumentService and CorpusService calls,
\* get_corpus_documents on a stored corpus returns Ok with exactly
\* count_corpus_documents documents, one for each document id the corpus
\* holds.  delete_document breaks it: it deletes from the document
\* repository and leaves the id in every stored corpus that holds it.
C30_CorpusDocumentsMatchCount ==
    (last.op = "get_corpus_documents" /\ last.input[1] \in DOMAIN corpus_repository) =>
        /\ last.result = Ok
        /\ Len(last.value) = count_corpus_documents(last.input[1]).value
        /\ {last.value[i].id : i \in DOMAIN last.value} = stored_document_ids(last.input[1])

\* How many of the tokens are text.
token_count(tokens, text) == Cardinality({i \in 1..Len(tokens) : tokens[i] = text})

\* The table holding each token with the number of times it occurs.
token_table(tokens) ==
    [text \in {tokens[i] : i \in 1..Len(tokens)} |-> token_count(tokens, text)]

\* C31: an update_content call with a content different from the stored one
\* saves and returns a document with the new content, whose table is
\* exactly the tokens of the new content with their counts, whose
\* term_count is the number of tokens, and whose title and metadata are the
\* stored document's; with the stored content it saves nothing and returns
\* the stored document.
C31_UpdateContentReplacesTerms ==
    [][(last'.op = "update_content" /\ last'.result = Ok) =>
          LET id == last'.input[1]
              new_content == last'.input[2]
              stored == document_repository[id]
              returned == last'.value
          IN  IF new_content # stored.content
              THEN /\ document_repository' = Insert(document_repository, id, returned)
                   /\ returned.id = id
                   /\ returned.content = new_content
                   /\ returned.term_frequencies = token_table(tokenize(new_content))
                   /\ returned.term_count = Len(tokenize(new_content))
                   /\ returned.title = stored.title
                   /\ returned.metadata = stored.metadata
              ELSE /\ document_repository' = document_repository
                   /\ returned = stored]_vars

\* An update_content call gave a new content to a stored document that had
\* a title, a metadata field and a term its new content does not hold.
C31_Witness ==
    /\ last.op = "update_content"
    /\ last.result = Ok
    /\ last.value.content = <<"test">>
    /\ last.value.title # None
    /\ last.value.metadata # EmptyMap
    /\ last.value.term_frequencies = Insert(EmptyMap, "test", 1)
    /\ document_repository[last.input[1]] = last.value

(***************************************************************************)
(* Properties of the scores.                                               *)
(***************************************************************************)
BuiltIn(options) == options.tf_weighting = None /\ options.idf_weighting = None

\* C32: with the built-in weighting, every score calculate_term_tfidf
\* returns on an indexed corpus has finite tf, idf and score, whatever the
\* document, the term and the number of documents, and a term the document
\* does not hold has tf exactly 0.0.  The corpus with no document breaks it:
\* with smoothing on the IDF is ln(0 / 1).
C32_TermScoresAreFinite ==
    (/\ last.op = "calculate_term_tfidf" /\ last.result = Ok
     /\ BuiltIn(last.options)) =>
        /\ is_finite(last.value.tf)
        /\ is_finite(last.value.idf)
        /\ is_finite(last.value.score)
        /\ term_frequency(last.input[2], hash_key(last.input[1])) = 0 =>
               F64Eq(last.value.tf, Zero)

\* The TfIdfScore values the last engine call handed back.
scores_of_last ==
    IF last.op = "calculate_term_tfidf" THEN {last.value}
    ELSE IF last.op = "calculate_document_tfidf"
         THEN {last.value[i] : i \in 1..Len(last.value)}
    ELSE UNION {{last.value[i].term_scores[j] : j \in 1..Len(last.value[i].term_scores)} :
                   i \in 1..Len(last.value)}

ScoringOps == {"calculate_term_tfidf", "calculate_document_tfidf", "search"}

\* C33 as stated: every TfIdfScore the engine hands back has
\* score == tf * idf, with any setting of normalize.
C33_ScoreIsProduct ==
    (last.op \in ScoringOps /\ last.result = Ok) =>
        \A entry \in scores_of_last : F64Eq(entry.score, F64Mul(entry.tf, entry.idf))

\* The list with every score put back to the product of its components.
products(scores) ==
    [i \in 1..Len(scores) |->
        [scores[i] EXCEPT !.score = F64Mul(scores[i].tf, scores[i].idf)]]

\* C33, amended: the score of a TfIdfScore from calculate_term_tfidf, from
\* the term_scores of a search result, and from calculate_document_tfidf
\* with normalize off or with a sum of squared products equal to 0.0, is
\* the f64 product tf * idf (NaN where the product is NaN); with normalize
\* on and any other sum, the score is that product divided by the square
\* root of the sum of the squared products, and tf and idf are as computed.
C33_ScoreIsProductUnlessNormalized ==
    (last.op \in ScoringOps /\ last.result = Ok) =>
        IF /\ last.op = "calculate_document_tfidf"
           /\ last.options.normalize
           /\ ~F64Eq(sum_of_squares(products(last.value)), Zero)
        THEN \A entry \in scores_of_last :
                 entry.score = F64Div(F64Mul(entry.tf, entry.idf),
                                      F64Sqrt(sum_of_squares(products(last.value))))
        ELSE \A entry \in scores_of_last : entry.score = F64Mul(entry.tf, entry.idf)

\* calculate_document_tfidf with normalize on returned two scores that are
\* not the products of their components.
C33_Witness ==
    /\ last.op = "calculate_document_tfidf"
    /\ last.result = Ok
    /\ last.options.normalize
    /\ Len(last.value) = 2
    /\ \A i \in 1..2 :
           /\ is_finite(last.value[i].score)
           /\ ~F64Eq(last.value[i].score, F64Mul(last.value[i].tf, last.value[i].idf))

(***************************************************************************)
(* Properties of the search results.                                       *)
(***************************************************************************)
\* The query terms in query order, without the terms flagged is_stopword
\* when drop_flagged is set.
RECURSIVE kept_terms(_, _)
kept_terms(query_terms, drop_flagged) ==
    IF query_terms = <<>> THEN <<>>
    ELSE (IF drop_flagged /\ Head(query_terms).is_stopword THEN <<>>
          ELSE <<Head(query_terms)>>)
             \o kept_terms(Tail(query_terms), drop_flagged)

\* Every result of the last search has the sum of its term_scores as score
\* and one entry per term of expected, in that order, an entry for a term
\* the document does not hold having score 0.0.
ResultsScore(expected) ==
    \A i \in 1..Len(last.value) :
        LET result == last.value[i]
        IN  /\ F64Eq(result.score, sum_of_scores(result.term_scores))
            /\ [j \in 1..Len(result.term_scores) |-> result.term_scores[j].term] = expected
            /\ \A j \in 1..Len(result.term_scores) :
                   term_frequency(result.document, hash_key(result.term_scores[j].term)) = 0
                       => F64Eq(result.term_scores[j].score, Zero)

C36_ProcessDocumentIsIdempotent ==
    (last.op = "process_document" /\ last.result = Ok) =>
        /\ document_repository[last.input[1]] = last.value
        /\ last.value.term_frequencies = token_table(tokenize(last.value.content))
        /\ last.value.term_count = Len(tokenize(last.value.content))
        /\ analyze_content(last.value) = last.value

\* process_document returned a document with a term in its table; the
\* document carries metadata, so it was saved to the repository directly.
C36_Witness ==
    /\ last.op = "process_document"
    /\ last.result = Ok
    /\ last.value.term_count > 0
    /\ last.value.metadata # EmptyMap

----------------------------------------------------------------------------
(* Properties of the services' failures *)

\* C37: a service call that returns an error (NotFound, InvalidInput or a
\* domain error) leaves the document repository and the corpus repository
\* as they were: nothing is saved or deleted by a failing call.
C37_FailingCallSavesNothing ==
    [][last'.result # Ok => UNCHANGED Repositories]_vars

\* create_corpus refused the id of a stored corpus that holds a document.
C37_Witness ==
    /\ last.op = "create_corpus"
    /\ last.result = "InvalidInput"
    /\ last.input[1] \in DOMAIN corpus_repository
    /\ corpus_repository[last.input[1]].documents # EmptyMap

----------------------------------------------------------------------------
(* Properties of the two repositories together *)

\* C39: in every state of the two repositories, the copy of a document
\* held by a stored corpus has the content and the term_frequencies of the
\* document stored under the same id in the document repository.
C39_EmbeddedCopyIsCurrent ==
    \A corpus_id \in DOMAIN corpus_repository :
        \A id \in DOMAIN corpus_repository[corpus_id].documents :
            id \in DOMAIN document_repository =>
                LET copy == corpus_repository[corpus_id].documents[id]
                IN  /\ copy.content = document_repository[id].content
                    /\ copy.term_frequencies = document_repository[id].term_frequencies

----------------------------------------------------------------------------
(* Properties of the engine on a corpus with stopwords *)

\* What the engine returns for the call recorded in call, on the corpus as
\* it is now.
engine_call(call) ==
    IF call.op = "calculate_term_tfidf"
    THEN calculate_term_tfidf(call.options, call.input[1], call.input[2])
    ELSE IF call.op = "calculate_document_tfidf"
         THEN calculate_document_tfidf(call.options, call.input, call.order)
    ELSE IF call.op = "search" THEN search(call.options, call.input, call.order)
    ELSE cosine_similarity(call.options, call.input[1], call.input[2])

\* C40: the result of calculate_term_tfidf, calculate_document_tfidf, search
\* and cosine_similarity does not depend on the corpus's stopword set:
\* whatever add_stopword, add_stopwords and remove_stopword have made of
\* the set since a call, the same call on the corpus, which differs only in
\* its stopwords, returns what the call returned.
C40_ResultIndependentOfStopwords ==
    last.op \in {"calculate_term_tfidf", "calculate_document_tfidf", "search",
                 "cosine_similarity"} =>
        /\ engine_call(last).result = last.result
        /\ engine_call(last).value = last.value

\* calculate_term_tfidf, with filter_stopwords on, scored a term that is not
\* flagged and whose text is in the corpus's stopword set.
C40_Witness ==
    /\ last.op = "calculate_term_tfidf"
    /\ last.result = Ok
    /\ last.options.filter_stopwords
    /\ ~last.input[1].is_stopword
    /\ last.input[1].text \in stopwords

----------------------------------------------------------------------------
(* Properties of concurrent callers *)

\* The document frequencies of a corpus value are those of the documents it
\* holds: every term counts the documents holding it.
index_matches_documents(corpus) ==
    corpus.document_frequencies = build_index_of(corpus).document_frequencies

\* C35: whatever add_document or remove_document calls are under way, the
\* corpus a reader gets from get_corpus, when indexed, has a document-
\* frequency index that matches the documents it holds: the reader sees the
\* document set and the index changed together, or neither changed.
C35_ReaderSeesIndexWithDocuments ==
    (last.op = "get_corpus" /\ last.result = Ok /\ last.value.indexed) =>
        index_matches_documents(last.value)

\* A reader got the indexed corpus while an add_document that has changed
\* its local corpus has not saved it yet, and after a remove_document was
\* saved: the corpus read holds neither document.
C35_Witness ==
    /\ last.op = "get_corpus"
    /\ last.result = Ok
    /\ last.value.indexed
    /\ \E caller \in DOMAIN in_flight, other \in DOMAIN in_flight :
           /\ in_flight[caller].op = "add_document"
           /\ in_flight[caller].stage = "ready"
           /\ in_flight[caller].corpus.document_frequencies # EmptyMap
           /\ in_flight[caller].arg \notin DOMAIN last.value.documents
           /\ in_flight[other].op = "remove_document"
           /\ in_flight[other].result = Ok
           /\ in_flight[other].arg \notin DOMAIN last.value.documents
           /\ last.value = corpus_repository[in_flight[other].corpus_id]

\* The corpus shows the mutation the call made.
reflects(call, corpus) ==
    IF call.op = "add_document" THEN call.arg \in DOMAIN corpus.documents
    ELSE IF call.op = "remove_document" THEN call.arg \notin DOMAIN corpus.documents
    ELSE IF call.op = "add_stopword" THEN to_lowercase(call.arg) \in corpus.stopwords
    ELSE IF call.op = "remove_stopword" THEN to_lowercase(call.arg) \notin corpus.stopwords
    ELSE IF call.op = "build_index" THEN corpus.indexed
    ELSE IF call.op = "update_name" THEN corpus.name = call.arg
    ELSE corpus.description = Some(call.arg)

\* One call undoes the other: the same document added and removed, the same
\* word added and removed.
undoes(call, other) ==
    /\ call.arg = other.arg
    /\ {call.op, other.op} \in {{"add_document", "remove_document"},
                                {"add_stopword", "remove_stopword"}}

\* C38: when the two callers' mutations of the same corpus have both
\* returned Ok, and neither undoes the other, the stored corpus shows both.
C38_NoUpdateLost ==
    \A caller \in DOMAIN in_flight, other \in DOMAIN in_flight :
        (/\ caller # other
         /\ in_flight[caller].result = Ok
         /\ in_flight[other].result = Ok
         /\ in_flight[caller].corpus_id = in_flight[other].corpus_id
         /\ ~undoes(in_flight[caller], in_flight[other])) =>
            reflects(in_flight[caller], corpus_repository[in_flight[caller].corpus_id])

====
